---- MODULE Spec2Model ----
(***************************************************************************)
(* A model of tetris, a Python wrapper around OpenFOAM's blockMesh: the    *)
(* vertex / edge / block elements, the topology tables of a hexahedral     *)
(* block and the Mesh registry that hands out element ids.                 *)
(*                                                                         *)
(* Python objects are modelled by their identity (a natural number) where  *)
(* identity matters (vertices, and every element a Mesh registers) and by  *)
(* their value (a record) elsewhere.  Coordinates are integers.  A call    *)
(* that raises is modelled by a result record whose err field names the    *)
(* exception; err = "" is a normal return.                                 *)
(***************************************************************************)
EXTENDS Integers, Sequences, FiniteSets, TLC

VARIABLES
    mesh,        \* mesh[m]: the fields of Mesh object m
    vertex_id,   \* vertex_id[v]: the id attribute of vertex object v
    edge_id,     \* edge_id[e]: the id attribute of edge object e
    block_id,    \* block_id[b]: the id attribute of block object b
    patch_id,    \* patch_id[p]: the id attribute of patch object p
    nops,        \* number of Mesh calls made so far
    block,       \* the fields of the Block object under test
    edge,        \* the edge the last constructor call returned, or NoEdge
    last         \* the last call: its name, arguments, outcome and pre-state

meshVars == <<mesh, vertex_id, edge_id, block_id, patch_id, nops>>
vars == <<mesh, vertex_id, edge_id, block_id, patch_id, nops, block, edge, last>>

-----------------------------------------------------------------------------
(* Results of calls.                                                       *)

Return(v) == [err |-> "", val |-> v]

Raise(kind) == [err |-> kind, val |-> <<>>]

-----------------------------------------------------------------------------
(* Vertices.  A vertex object is a number; Coords gives its coordinates.   *)
(* Objects 1..8 are the corners of the unit cube in blockMesh's labelling, *)
(* 9..12 complete a second cube that shares the face x = 1 with the first, *)
(* and 13 is a distinct object at the coordinates of 9.                    *)

Coords ==
    << <<0, 0, 0>>, <<1, 0, 0>>, <<1, 1, 0>>, <<0, 1, 0>>,
       <<0, 0, 1>>, <<1, 0, 1>>, <<1, 1, 1>>, <<0, 1, 1>>,
       <<2, 0, 0>>, <<2, 1, 0>>, <<2, 0, 1>>, <<2, 1, 1>>,
       <<2, 0, 0>> >>

VertexObjs == DOMAIN Coords

coords(v) == Coords[v]

\* Vertex.__eq__ as object identity, which is what Python compares when
\* __eq__ is not overloaded.
Vertex_is(a, b) == a = b

\* Vertex.__eq__: all(self.coords == other.coords)
Vertex_eq(a, b) == \A i \in 1..3 : coords(a)[i] = coords(b)[i]

\* list.index(x) for a list of vertices: the first position (0-based) whose
\* entry equals x under Vertex.__eq__; -1 stands for the ValueError.
vertices_index(vertices, x) ==
    IF \E i \in 1..Len(vertices) : Vertex_eq(vertices[i], x)
    THEN (CHOOSE i \in 1..Len(vertices) :
            /\ Vertex_eq(vertices[i], x)
            /\ \A j \in 1..(i - 1) : ~Vertex_eq(vertices[j], x)) - 1
    ELSE -1

-----------------------------------------------------------------------------
(* Topology tables (tetris/constants.py).  Corner indices are 0-based as   *)
(* in the source.                                                          *)

FaceLabels == <<"left", "right", "front", "back", "bottom", "top">>

\* FACE_MAPPING as it would read with the bottom face listed in the order of
\* the top face (0, 1, 2, 3), which turns its normal into the block.
FACE_MAPPING_bottom_inward ==
    [label \in {"left", "right", "front", "back", "bottom", "top"} |->
        CASE label = "left"   -> <<3, 0, 4, 7>>
          [] label = "right"  -> <<1, 2, 6, 5>>
          [] label = "front"  -> <<0, 1, 5, 4>>
          [] label = "back"   -> <<2, 3, 7, 6>>
          [] label = "bottom" -> <<0, 1, 2, 3>>
          [] label = "top"    -> <<4, 5, 6, 7>>]

FACE_MAPPING ==
    [label \in {"left", "right", "front", "back", "bottom", "top"} |->
        CASE label = "left"   -> <<3, 0, 4, 7>>
          [] label = "right"  -> <<1, 2, 6, 5>>
          [] label = "front"  -> <<0, 1, 5, 4>>
          [] label = "back"   -> <<2, 3, 7, 6>>
          [] label = "bottom" -> <<0, 3, 2, 1>>
          [] label = "top"    -> <<4, 5, 6, 7>>]

FACE_IDS ==
    << <<3, 0, 4, 7>>,
       <<1, 2, 6, 5>>,
       <<0, 1, 5, 4>>,
       <<2, 3, 7, 6>>,
       <<0, 3, 2, 1>>,
       <<4, 5, 6, 7>> >>

EDGES_ON_AXIS ==
    << << <<0, 1>>, <<2, 3>>, <<6, 7>>, <<4, 5>> >>,
       << <<0, 3>>, <<1, 2>>, <<5, 6>>, <<4, 7>> >>,
       << <<0, 4>>, <<1, 5>>, <<2, 6>>, <<3, 7>> >> >>

BLOCK_EDGES ==
    << <<0, 1>>, <<2, 3>>, <<6, 7>>, <<4, 5>>,
       <<0, 3>>, <<1, 2>>, <<5, 6>>, <<4, 7>>,
       <<0, 4>>, <<1, 5>>, <<2, 6>>, <<3, 7>> >>

-----------------------------------------------------------------------------
(* Edges of tetris/blockmesh/edge.py.  An edge value is a record: cls is   *)
(* the class, v0 and v1 the endpoint objects, data the curve data (the     *)
(* midpoint, <<origin, factor>>, the point sequence or the surface list).  *)

\* Edge.__init__: the zero-length check, then the two endpoints.
Edge_init(cls, v0, v1, data) ==
    IF Vertex_eq(v0, v1)
    THEN Raise("ValueError")
    ELSE Return([cls |-> cls, v0 |-> v0, v1 |-> v1, data |-> data])

LineEdge(v0, v1) == Edge_init("LineEdge", v0, v1, <<>>)

ArcMidEdge(v0, v1, point) == Edge_init("ArcMidEdge", v0, v1, point)

ArcOriginEdge(v0, v1, origin, factor) ==
    Edge_init("ArcOriginEdge", v0, v1, <<origin, factor>>)

SplineEdge(v0, v1, points) == Edge_init("SplineEdge", v0, v1, points)

BSplineEdge(v0, v1, points) == Edge_init("BSplineEdge", v0, v1, points)

PolyLineEdge(v0, v1, points) == Edge_init("PolyLineEdge", v0, v1, points)

ProjectEdge(v0, v1, surfaces) == Edge_init("ProjectEdge", v0, v1, surfaces)

\* The type property of each class; elements.Edge stores its type in a
\* field, where "None" stands for Python's None.
type(e) ==
    CASE e.cls = "LineEdge"      -> "line"
      [] e.cls = "ArcMidEdge"    -> "arc"
      [] e.cls = "ArcOriginEdge" -> "arc"
      [] e.cls = "SplineEdge"    -> "spline"
      [] e.cls = "BSplineEdge"   -> "BSpline"
      [] e.cls = "PolyLineEdge"  -> "polyLine"
      [] e.cls = "ProjectEdge"   -> "project"
      [] e.cls = "Edge"          -> e.type

Reverse(s) == [i \in 1..Len(s) |-> s[Len(s) + 1 - i]]

\* invert() of each class of blockmesh/edge.py (SequenceEdge.invert for the
\* three sequence classes).
invert(e) ==
    CASE e.cls = "LineEdge"      -> LineEdge(e.v1, e.v0)
      [] e.cls = "ArcMidEdge"    -> ArcMidEdge(e.v1, e.v0, e.data)
      [] e.cls = "ArcOriginEdge" -> ArcOriginEdge(e.v1, e.v0, e.data[1], e.data[2])
      [] e.cls = "ProjectEdge"   -> ProjectEdge(e.v1, e.v0, e.data)
      [] OTHER                   -> Edge_init(e.cls, e.v1, e.v0, Reverse(e.data))

-----------------------------------------------------------------------------
(* Block (tetris/blockmesh/block.py).  A method's result is a record: err  *)
(* names the exception raised ("" for none), val is the value returned and *)
(* self the block's fields after the call.                                 *)

Outcome(err, val, self) == [err |-> err, val |-> val, self |-> self]

\* Block.__init__
Block_init ==
    [vertices |-> <<>>, edges |-> <<>>,
     grading |-> <<1, 1, 1>>, grading_type |-> "simple",
     ncells |-> <<1, 1, 1>>, cellZone |-> "", description |-> ""]

\* The list comprehension of set_vertices: one LineEdge per pair of
\* BLOCK_EDGES, each a constructor result.
line_edges(vertices) ==
    [k \in 1..Len(BLOCK_EDGES) |->
        LineEdge(vertices[BLOCK_EDGES[k][1] + 1], vertices[BLOCK_EDGES[k][2] + 1])]

\* The grading setter as it would read with the value stored before its
\* length is looked at.
grading_setter_store_first(self, value) ==
    IF value.py \notin {"list", "tuple"}
    THEN Outcome("TypeError", <<>>, self)
    ELSE IF Len(value.items) = 3
    THEN Outcome("", <<>>, [self EXCEPT !.grading = value.items,
                                        !.grading_type = "simple"])
    ELSE IF Len(value.items) = 12
    THEN Outcome("", <<>>, [self EXCEPT !.grading = value.items,
                                        !.grading_type = "edge"])
    ELSE Outcome("ValueError", <<>>, [self EXCEPT !.grading = value.items])

\* Block.grading (setter).  The value handed over is a record: py is its
\* Python type, items its elements (none for a value without length).  The
\* isinstance test comes first, then a copy of a value of length 3 is stored
\* as simple grading and of one of length 12 as edge grading; any other
\* length raises ValueError.
grading_setter(self, value) ==
    IF value.py \notin {"list", "tuple"}
    THEN Outcome("TypeError", <<>>, self)
    ELSE IF Len(value.items) = 3
    THEN Outcome("", <<>>, [self EXCEPT !.grading = value.items,
                                        !.grading_type = "simple"])
    ELSE IF Len(value.items) = 12
    THEN Outcome("", <<>>, [self EXCEPT !.grading = value.items,
                                        !.grading_type = "edge"])
    ELSE Outcome("ValueError", <<>>, self)

\* Block.set_vertices as block.py:95-108 would read with the edge list
\* rebuilt only for a block that has none yet.
set_vertices_keeping_edges(self, vertices) ==
    IF Len(vertices) # 8
    THEN Outcome("ValueError", <<>>, self)
    ELSE LET made == line_edges(vertices)
         IN  IF \E k \in 1..Len(made) : made[k].err # ""
             THEN Outcome("ValueError", <<>>, [self EXCEPT !.vertices = vertices])
             ELSE Outcome("", <<>>,
                    [self EXCEPT !.vertices = vertices,
                                 !.edges = IF Len(self.edges) = 0
                                           THEN [k \in 1..Len(made) |-> made[k].val]
                                           ELSE self.edges])

\* Block.set_vertices as it would read with the vertex list assigned before
\* the length is checked.
set_vertices_late_check(self, vertices) ==
    IF Len(vertices) # 8
    THEN Outcome("ValueError", <<>>, [self EXCEPT !.vertices = vertices])
    ELSE LET made == line_edges(vertices)
         IN  IF \E k \in 1..Len(made) : made[k].err # ""
             THEN Outcome("ValueError", <<>>, [self EXCEPT !.vertices = vertices])
             ELSE Outcome("", <<>>,
                    [self EXCEPT !.vertices = vertices,
                                 !.edges = [k \in 1..Len(made) |-> made[k].val]])

\* Block.set_vertices: the length check, then self.vertices is assigned, then
\* the 12 line edges are built (a zero-length pair raises out of the
\* comprehension, after the vertices were replaced) and assigned.
set_vertices(self, vertices) ==
    IF Len(vertices) # 8
    THEN Outcome("ValueError", <<>>, self)
    ELSE LET made == line_edges(vertices)
         IN  IF \E k \in 1..Len(made) : made[k].err # ""
             THEN Outcome("ValueError", <<>>, [self EXCEPT !.vertices = vertices])
             ELSE Outcome("", <<>>,
                    [self EXCEPT !.vertices = vertices,
                                 !.edges = [k \in 1..Len(made) |-> made[k].val]])

\* Block.from_vertices
from_vertices(vertices) == set_vertices(Block_init, vertices)

\* tuple.index for BLOCK_EDGES: the 0-based slot of a pair, -1 for ValueError.
block_edges_index(pair) ==
    IF \E k \in 1..Len(BLOCK_EDGES) : BLOCK_EDGES[k] = pair
    THEN (CHOOSE k \in 1..Len(BLOCK_EDGES) : BLOCK_EDGES[k] = pair) - 1
    ELSE -1

\* tuple({*ids}) for two small non-negative ints: the distinct values in
\* ascending order.
ordered(ids) ==
    IF ids[1] = ids[2] THEN <<ids[1]>>
    ELSE IF ids[1] < ids[2] THEN ids ELSE <<ids[2], ids[1]>>

\* Block.set_edge as it would read if the edge were stored as handed over.
set_edge_as_given(self, e) ==
    LET i0 == vertices_index(self.vertices, e.v0)
        i1 == vertices_index(self.vertices, e.v1)
        ids == <<i0, i1>>
        ordered_ids == ordered(ids)
        slot == block_edges_index(ordered_ids)
    IN  IF i0 < 0 \/ i1 < 0 THEN Outcome("ValueError", <<>>, self)
        ELSE IF slot < 0 THEN Outcome("ValueError", <<>>, self)
        ELSE IF slot >= Len(self.edges) THEN Outcome("IndexError", <<>>, self)
        ELSE Outcome("", <<>>, [self EXCEPT !.edges[slot + 1] = e])

\* Block.set_edge
set_edge(self, e) ==
    LET i0 == vertices_index(self.vertices, e.v0)
        i1 == vertices_index(self.vertices, e.v1)
        ids == <<i0, i1>>
        ordered_ids == ordered(ids)
        right_order == ids = ordered_ids
        slot == block_edges_index(ordered_ids)
    IN  IF i0 < 0 \/ i1 < 0 THEN Outcome("ValueError", <<>>, self)
        ELSE IF slot < 0 THEN Outcome("ValueError", <<>>, self)
        ELSE IF slot >= Len(self.edges) THEN Outcome("IndexError", <<>>, self)
        ELSE Outcome("", <<>>,
               [self EXCEPT !.edges[slot + 1] =
                    IF right_order THEN e ELSE invert(e).val])

\* tetris.utils.to_array as vertex.py:212 uses it: the coordinates of a
\* Vertex, and for a number the array of three times that number
\* (np.ones(3) * element).  A value is a record: py its Python type, val the
\* vertex object or the number.
to_array(x) ==
    IF x.py = "Vertex" THEN coords(x.val) ELSE <<x.val, x.val, x.val>>

\* vertex == x for a Vertex object and any value x (Vertex.__eq__)
Vertex_eq_value(vertex, x) == coords(vertex) = to_array(x)

\* Block.edge(v0, v1): each argument is taken as a local index when it is
\* an int and looked up in self.vertices otherwise; the stored edge of the
\* ascending pair is returned as it is when its v0 == v0, inverted otherwise.
Block_edge(self, v0, v1) ==
    LET id0 == IF v0.py = "int" THEN v0.val ELSE vertices_index(self.vertices, v0.val)
        id1 == IF v1.py = "int" THEN v1.val ELSE vertices_index(self.vertices, v1.val)
        ids == ordered(<<id0, id1>>)
        slot == block_edges_index(ids)
    IN  IF id0 < 0 \/ id1 < 0 THEN Outcome("ValueError", <<>>, self)
        ELSE IF slot < 0 THEN Outcome("ValueError", <<>>, self)
        ELSE IF slot >= Len(self.edges) THEN Outcome("IndexError", <<>>, self)
        ELSE LET e == self.edges[slot + 1]
             IN  Outcome("", IF Vertex_eq_value(e.v0, v0) THEN e ELSE invert(e).val,
                         self)

\* Block.face as it would read if the corner indices were collected in a
\* set before the lookup (ascending order, not the table's).
face_sorted(self, label) ==
    LET ids == FACE_MAPPING[label]
        asc == CHOOSE s \in [1..4 -> {ids[i] : i \in 1..4}] :
                  \A i \in 1..3 : s[i] < s[i + 1]
    IN  IF \E i \in 1..4 : ids[i] + 1 > Len(self.vertices)
        THEN Outcome("IndexError", <<>>, self)
        ELSE Outcome("", [i \in 1..4 |-> self.vertices[asc[i] + 1]], self)

\* Block.face
face(self, label) ==
    LET ids == FACE_MAPPING[label]
    IN  IF \E i \in 1..Len(ids) : ids[i] + 1 > Len(self.vertices)
        THEN Outcome("IndexError", <<>>, self)
        ELSE Outcome("", [i \in 1..Len(ids) |-> self.vertices[ids[i] + 1]], self)

-----------------------------------------------------------------------------
(* The Block under test: the arguments the calls are given.                *)

CubeA == <<1, 2, 3, 4, 5, 6, 7, 8>>

CubeB == <<2, 9, 10, 3, 6, 11, 12, 7>>

\* Valid lists: the two cubes, the first cube upside down, and a list that
\* names the same objects at diagonally opposite corners.
\* Invalid lists: wrong lengths, and two lists whose corners 0 and 1 have
\* equal coordinates (two objects, and one object twice).
VertexLists ==
    { CubeA, CubeB,
      <<5, 8, 7, 6, 1, 4, 3, 2>>,
      <<1, 2, 1, 4, 5, 6, 5, 8>>,
      <<>>,
      <<1, 2, 3, 4, 5, 6, 7>>,
      <<1, 2, 3, 4, 5, 6, 7, 8, 9>>,
      <<9, 13, 10, 3, 6, 11, 12, 7>>,
      <<1, 1, 3, 4, 5, 6, 7, 8>> }

\* Edges handed to set_edge: along a table pair, against one, with an
\* endpoint that is another object at a corner's coordinates, and between
\* two corners that no block edge joins.
EdgeArgs ==
    { ArcMidEdge(1, 2, <<1, 1, 1>>).val,
      SplineEdge(4, 1, << <<0, 2, 0>>, <<0, 1, 1>> >>).val,
      ArcOriginEdge(2, 13, <<0, 0, 0>>, 1).val,
      PolyLineEdge(1, 3, << <<1, 0, 0>> >>).val,
      ProjectEdge(7, 6, <<"sphere">>).val }

\* Pairs handed to Block.edge: local indices and vertex objects, along and
\* against a table pair, and pairs that no block edge joins.
EdgeLookupArgs ==
    { <<[py |-> "int", val |-> 0], [py |-> "int", val |-> 1]>>,
      <<[py |-> "int", val |-> 1], [py |-> "int", val |-> 0]>>,
      <<[py |-> "int", val |-> 1], [py |-> "int", val |-> 2]>>,
      <<[py |-> "int", val |-> 6], [py |-> "int", val |-> 5]>>,
      <<[py |-> "int", val |-> 0], [py |-> "int", val |-> 2]>>,
      <<[py |-> "Vertex", val |-> 1], [py |-> "Vertex", val |-> 2]>>,
      <<[py |-> "Vertex", val |-> 3], [py |-> "Vertex", val |-> 2]>>,
      <<[py |-> "Vertex", val |-> 2], [py |-> "Vertex", val |-> 13]>>,
      <<[py |-> "Vertex", val |-> 4], [py |-> "int", val |-> 0]>>,
      <<[py |-> "Vertex", val |-> 1], [py |-> "Vertex", val |-> 7]>> }

\* Arguments of the grading setter: lists and tuples of 0, 3, 4, 11, 12 and
\* 13 levels, a string of 3 characters, an array of 12 levels and a number.
GradingArgs ==
    { [py |-> "list", items |-> <<>>],
      [py |-> "list", items |-> <<2, 1, 1>>],
      [py |-> "tuple", items |-> <<1, 2, 3>>],
      [py |-> "list", items |-> <<1, 2, 3, 4>>],
      [py |-> "tuple", items |-> [k \in 1..11 |-> 1]],
      [py |-> "list", items |-> [k \in 1..12 |-> k]],
      [py |-> "tuple", items |-> [k \in 1..12 |-> 2]],
      [py |-> "list", items |-> [k \in 1..13 |-> 1]],
      [py |-> "str", items |-> <<"1", "2", "3">>],
      [py |-> "ndarray", items |-> [k \in 1..12 |-> 1]],
      [py |-> "int", items |-> <<>>] }

BlockCall(op, arg, out) ==
    /\ block' = out.self
    /\ last' = [op |-> op, arg |-> arg, err |-> out.err, val |-> out.val,
                pre |-> block]
    /\ UNCHANGED <<meshVars, edge>>

SetVertices == \E vs \in VertexLists :
    BlockCall("set_vertices", vs, set_vertices(block, vs))

SetEdge == \E e \in EdgeArgs :
    BlockCall("set_edge", e, set_edge(block, e))

Face == \E label \in DOMAIN FACE_MAPPING :
    BlockCall("face", label, face(block, label))

\* block.grading = value
SetGrading == \E value \in GradingArgs :
    BlockCall("grading", value, grading_setter(block, value))

\* r = block.edge(v0, v1)
GetEdge == \E a \in EdgeLookupArgs :
    BlockCall("edge", a, Block_edge(block, a[1], a[2]))

NoCall == [op |-> "none", arg |-> <<>>, err |-> "", val |-> <<>>, pre |-> <<>>]

NoEdge == [cls |-> "none"]

MeshIdle ==
    /\ mesh = <<>>
    /\ vertex_id = <<>>
    /\ edge_id = <<>>
    /\ block_id = <<>>
    /\ patch_id = <<>>
    /\ nops = 0

InitBlock ==
    /\ MeshIdle
    /\ edge = NoEdge
    /\ block = Block_init
    /\ last = NoCall

NextBlock == SetVertices \/ SetEdge \/ Face \/ SetGrading \/ GetEdge

SpecBlock == InitBlock /\ [][NextBlock]_vars

-----------------------------------------------------------------------------
(* Claims about Block, checked under SpecBlock.                            *)

\* The two corners of every BLOCK_EDGES pair have different coordinates.
PairsApart(vs) ==
    \A k \in 1..Len(BLOCK_EDGES) :
        coords(vs[BLOCK_EDGES[k][1] + 1]) # coords(vs[BLOCK_EDGES[k][2] + 1])

\* C5: set_vertices with 8 vertices whose edge-table pairs have different
\* coordinates succeeds, stores the 8 vertices in the given order and leaves
\* exactly 12 straight-line edges, the k-th from vertices[a] to vertices[b]
\* for the k-th pair (a, b) of BLOCK_EDGES, whatever edges the block held.
C5_SetVerticesRegenerates ==
    (last.op = "set_vertices" /\ Len(last.arg) = 8 /\ PairsApart(last.arg)) =>
        /\ last.err = ""
        /\ block.vertices = last.arg
        /\ Len(block.edges) = 12
        /\ \A k \in 1..12 :
              /\ block.edges[k].cls = "LineEdge"
              /\ type(block.edges[k]) = "line"
              /\ block.edges[k].data = <<>>
              /\ block.edges[k].v0 = last.arg[BLOCK_EDGES[k][1] + 1]
              /\ block.edges[k].v1 = last.arg[BLOCK_EDGES[k][2] + 1]

\* C5's case: a successful set_vertices on a block that held a customised
\* edge and other vertices.
C5_Witness ==
    /\ last.op = "set_vertices"
    /\ Len(last.arg) = 8
    /\ PairsApart(last.arg)
    /\ Len(last.pre.edges) = 12
    /\ \E k \in 1..12 : last.pre.edges[k].cls # "LineEdge"
    /\ last.pre.vertices # last.arg

\* C6: set_vertices with a collection whose length is not 8 raises and
\* leaves the block's vertices and edges as they were.
C6_WrongCountRejected ==
    (last.op = "set_vertices" /\ Len(last.arg) # 8) =>
        /\ last.err = "ValueError"
        /\ block.vertices = last.pre.vertices
        /\ block.edges = last.pre.edges

\* C6's case: a 9-vertex list refused by a block that holds 8 vertices and a
\* customised edge.
C6_Witness ==
    /\ last.op = "set_vertices"
    /\ Len(last.arg) = 9
    /\ last.err = "ValueError"
    /\ Len(last.pre.vertices) = 8
    /\ \E k \in 1..Len(last.pre.edges) : last.pre.edges[k].cls # "LineEdge"

\* C7: on a block that holds its 8 vertices, face(label) returns the 4
\* vertices vertices[i] for the indices i of FACE_MAPPING[label], in the
\* table's order, and changes nothing in the block.
C7_FaceIsTableLookup ==
    (last.op = "face" /\ Len(last.pre.vertices) = 8) =>
        /\ last.err = ""
        /\ Len(last.val) = 4
        /\ \A i \in 1..4 :
              last.val[i] = last.pre.vertices[FACE_MAPPING[last.arg][i] + 1]
        /\ block = last.pre

\* C7's case: the face "bottom" of a block whose vertices are not in
\* ascending object order and that holds a customised edge.
C7_Witness ==
    /\ last.op = "face"
    /\ last.arg = "bottom"
    /\ last.err = ""
    /\ last.pre.vertices = CubeB
    /\ \E k \in 1..12 : last.pre.edges[k].cls # "LineEdge"

Minus(p, q) == <<p[1] - q[1], p[2] - q[2], p[3] - q[3]>>

Plus(p, q) == <<p[1] + q[1], p[2] + q[2], p[3] + q[3]>>

Dot(p, q) == p[1] * q[1] + p[2] * q[2] + p[3] * q[3]

Cross(a, b) ==
    <<a[2] * b[3] - a[3] * b[2], a[3] * b[1] - a[1] * b[3], a[1] * b[2] - a[2] * b[1]>>

\* The corner offsets of the unit cube in the labelling convention: 0, 1, 2, 3
\* around the bottom, 4..7 above them, 0->1, 0->3, 0->4 a right-handed frame.
UnitCorners ==
    << <<0, 0, 0>>, <<1, 0, 0>>, <<1, 1, 0>>, <<0, 1, 0>>,
       <<0, 0, 1>>, <<1, 0, 1>>, <<1, 1, 1>>, <<0, 1, 1>> >>

ConventionCube(vs) ==
    /\ Len(vs) = 8
    /\ \A k \in 1..8 : coords(vs[k]) = Plus(coords(vs[1]), UnitCorners[k])

\* The right-hand-rule normal of the quadrilateral p[1], p[2], p[3], p[4]
\* (twice its area vector): zero when the order crosses the face.
QuadNormal(p) ==
    Plus(Plus(Cross(p[1], p[2]), Cross(p[2], p[3])),
         Plus(Cross(p[3], p[4]), Cross(p[4], p[1])))

\* Eight times the vector from the centre of the hexahedron vs to the
\* centroid of the quadrilateral p.
FromCentre(vs, p) ==
    LET sum4 == Plus(Plus(p[1], p[2]), Plus(p[3], p[4]))
        c(k) == coords(vs[k])
        sum8 == Plus(Plus(Plus(c(1), c(2)), Plus(c(3), c(4))),
                     Plus(Plus(c(5), c(6)), Plus(c(7), c(8))))
    IN  Minus(Plus(sum4, sum4), sum8)

\* The table entry ids names 4 distinct corners of one face of the cube vs,
\* ordered so that the right-hand-rule normal points away from the centre.
OutwardFace(vs, ids) ==
    LET p == [i \in 1..4 |-> coords(vs[ids[i] + 1])]
    IN  /\ Len(ids) = 4
        /\ Cardinality({ids[i] : i \in 1..4}) = 4
        /\ \E axis \in 1..3 : \A i \in 1..4 : p[i][axis] = p[1][axis]
        /\ Dot(QuadNormal(p), FromCentre(vs, p)) > 0

\* C8: on a block whose corners are a unit cube in the labelling convention,
\* every face-table entry (FACE_MAPPING through face, and FACE_IDS) lists 4
\* distinct corners of one cube face with an outward right-hand-rule normal,
\* and the 6 entries are 6 different faces.
C8_FaceTableOutward ==
    (last.op = "face" /\ last.err = "" /\ ConventionCube(last.pre.vertices)) =>
        /\ Len(last.val) = 4
        /\ Cardinality({last.val[i] : i \in 1..4}) = 4
        /\ \E axis \in 1..3 :
              \A i \in 1..4 : coords(last.val[i])[axis] = coords(last.val[1])[axis]
        /\ Dot(QuadNormal([i \in 1..4 |-> coords(last.val[i])]),
               FromCentre(last.pre.vertices,
                          [i \in 1..4 |-> coords(last.val[i])])) > 0
        /\ \A label \in DOMAIN FACE_MAPPING :
              OutwardFace(last.pre.vertices, FACE_MAPPING[label])
        /\ \A i \in 1..Len(FACE_IDS) : OutwardFace(last.pre.vertices, FACE_IDS[i])
        /\ Cardinality(DOMAIN FACE_MAPPING) = 6
        /\ Len(FACE_IDS) = 6
        /\ \A a, b \in DOMAIN FACE_MAPPING :
              a # b => {FACE_MAPPING[a][i] : i \in 1..4}
                         # {FACE_MAPPING[b][i] : i \in 1..4}
        /\ \A a, b \in 1..Len(FACE_IDS) :
              a # b => {FACE_IDS[a][i] : i \in 1..4} # {FACE_IDS[b][i] : i \in 1..4}

\* C8's case: a face of the second cube (not at the origin) was looked up.
C8_Witness ==
    /\ last.op = "face"
    /\ last.err = ""
    /\ last.arg = "left"
    /\ last.pre.vertices = CubeB
    /\ ConventionCube(last.pre.vertices)

-----------------------------------------------------------------------------
(* The Edge class of tetris/elements.py: one class, its curve type a       *)
(* stored field ("None" for Python's None, a straight line) and its        *)
(* interior points a property whose setter is meant to drop collinear      *)
(* points.  A point is a sequence of coordinates.                          *)

\* np.cross(v0 - v1, v0 - v2).sum() == 0
is_collinear(v0, v1, v2) ==
    LET c == Cross(Minus(v0, v1), Minus(v0, v2))
    IN  c[1] + c[2] + c[3] = 0

\* np.delete(points, to_delete, axis=0): a NEW array without the rows whose
\* 0-based index is in to_delete; the argument is left as it is.
np_delete(points, to_delete) ==
    LET keep == {i \in 1..Len(points) : (i - 1) \notin to_delete}
        pos(j) == CHOOSE i \in keep : Cardinality({h \in keep : h < i}) = j - 1
    IN  [j \in 1..Cardinality(keep) |-> points[pos(j)]]

\* zip stops with its shortest argument.
Min(a, b) == IF a < b THEN a ELSE b

\* The points setter.  self is the edge's fields before the assignment.
\* The array is stored first; an empty one clears the type.  A malformed one
\* raises TypeError.  Otherwise the endpoints are added and the loop runs
\* over zip(points[0:-2], points[1:-1], points[2:-0]): -0 is 0, so the third
\* slice is points[2:0], which is empty, and the loop has no turn.  np.delete
\* is called with what the loop collected and its result is dropped, and the
\* rows between the endpoints are stored.
points_setter(self, points) ==
    LET stored == [self EXCEPT !.points = points]
        full == <<coords(self.v0)>> \o points \o <<coords(self.v1)>>
        prevs == SubSeq(full, 1, Len(full) - 2)
        curs == SubSeq(full, 2, Len(full) - 1)
        nexts == SubSeq(full, 3, 0)
        turns == 1..Min(Len(prevs), Min(Len(curs), Len(nexts)))
        to_delete == {i \in turns : is_collinear(prevs[i], curs[i], nexts[i])}
        deleted == np_delete(full, to_delete)
        inner == SubSeq(full, 2, Len(full) - 1)
    IN  IF Len(points) = 0
        THEN Outcome("", <<>>, [stored EXCEPT !.type = "None"])
        ELSE IF \E i \in 1..Len(points) : Len(points[i]) # 3
        THEN Outcome("TypeError", <<>>, stored)
        ELSE Outcome("", <<>>,
               [stored EXCEPT !.points = inner,
                              !.type = IF Len(inner) = 0 THEN "None" ELSE @])

\* Edge.__init__ of tetris/elements.py: the zero-length check, the
\* endpoints, the points (through the setter), then the type and the id.
Edge(v0, v1, points, typ) ==
    IF Vertex_eq(v0, v1)
    THEN Raise("ValueError")
    ELSE LET blank == [cls |-> "Edge", v0 |-> v0, v1 |-> v1,
                       points |-> <<>>, type |-> "None"]
             set == points_setter(blank, points)
         IN  IF set.err # ""
             THEN Raise(set.err)
             ELSE Return([set.self EXCEPT !.type = typ])

\* Edge.invert of tetris/elements.py
Edge_invert(e) == Edge(e.v1, e.v0, Reverse(e.points), e.type)

\* e.invert() for an edge of either module.
edge_invert(e) == IF e.cls = "Edge" THEN Edge_invert(e) ELSE invert(e)

-----------------------------------------------------------------------------
(* The edge under test: constructions of every class, and assignments to   *)
(* the points of an elements.Edge.                                         *)

\* Endpoints: four places, one of them held by two objects (9 and 13).
EndpointObjs == {1, 8, 9, 10, 13}

\* Interior point lists: none, one point on the segment 1-9, one off it, two
\* on the line through 1 and 9, one on and one off the path 1-10, and a list
\* of two-dimensional points.
PointLists ==
    { <<>>,
      << <<1, 0, 0>> >>,
      << <<1, 1, 0>> >>,
      << <<1, 0, 0>>, <<3, 0, 0>> >>,
      << <<1, 0, 0>>, <<2, 0, 0>> >>,
      << <<1, 0>> >> }

EdgeTypes == {"spline", "None"}

\* The constructor calls: class, endpoints and curve data.
NewEdgeArgs ==
    [cls : {"LineEdge"}, v0 : EndpointObjs, v1 : EndpointObjs, data : {<<>>}]
    \cup [cls : {"ArcMidEdge"}, v0 : EndpointObjs, v1 : EndpointObjs,
          data : {<<1, 1, 0>>}]
    \cup [cls : {"ArcOriginEdge"}, v0 : EndpointObjs, v1 : EndpointObjs,
          data : {<< <<1, 0, 0>>, 1 >>, << <<1, 0, 0>>, 2 >>}]
    \cup [cls : {"SplineEdge", "BSplineEdge", "PolyLineEdge"},
          v0 : EndpointObjs, v1 : EndpointObjs,
          data : {<< <<1, 1, 0>> >>, << <<1, 0, 0>>, <<1, 1, 0>> >>}]
    \cup [cls : {"ProjectEdge"}, v0 : EndpointObjs, v1 : EndpointObjs,
          data : {<<"sphere">>}]

construct(a) ==
    CASE a.cls = "LineEdge"      -> LineEdge(a.v0, a.v1)
      [] a.cls = "ArcMidEdge"    -> ArcMidEdge(a.v0, a.v1, a.data)
      [] a.cls = "ArcOriginEdge" -> ArcOriginEdge(a.v0, a.v1, a.data[1], a.data[2])
      [] a.cls = "SplineEdge"    -> SplineEdge(a.v0, a.v1, a.data)
      [] a.cls = "BSplineEdge"   -> BSplineEdge(a.v0, a.v1, a.data)
      [] a.cls = "PolyLineEdge"  -> PolyLineEdge(a.v0, a.v1, a.data)
      [] a.cls = "ProjectEdge"   -> ProjectEdge(a.v0, a.v1, a.data)
      [] a.cls = "Edge"          -> Edge(a.v0, a.v1, a.data, a.type)

\* A call on the edge under test; after is the edge it leaves.
EdgeCall(op, arg, out, pre, after) ==
    /\ edge' = after
    /\ last' = [op |-> op, arg |-> arg, err |-> out.err, val |-> out.val,
                pre |-> pre]
    /\ UNCHANGED <<meshVars, block>>

\* edge = <class>(v0, v1, ...) of blockmesh/edge.py; NoEdge when it raises.
NewEdge == \E a \in NewEdgeArgs :
    LET out == construct(a)
    IN  EdgeCall("new", a, out, NoEdge, IF out.err = "" THEN out.val ELSE NoEdge)

\* edge = Edge(v0, v1, points, type) of elements.py; NoEdge when it raises.
NewElementsEdge ==
    \E v0 \in EndpointObjs, v1 \in EndpointObjs, ps \in PointLists, t \in EdgeTypes :
        LET a == [cls |-> "Edge", v0 |-> v0, v1 |-> v1, data |-> ps, type |-> t]
            out == construct(a)
        IN  EdgeCall("new", a, out, NoEdge,
                     IF out.err = "" THEN out.val ELSE NoEdge)

\* e.points = ps on an elements.Edge
SetPoints == \E ps \in PointLists :
    /\ edge.cls = "Edge"
    /\ LET out == points_setter(edge, ps)
       IN  EdgeCall("points", ps, out, edge, out.self)

\* r = e.invert().invert() on the edge under test, which stays as it is
InvertTwice ==
    /\ edge # NoEdge
    /\ LET once == edge_invert(edge)
           out == IF once.err # "" THEN once ELSE edge_invert(once.val)
       IN  EdgeCall("invert_invert", <<>>, out, edge, edge)

InitEdge ==
    /\ MeshIdle
    /\ block = Block_init
    /\ edge = NoEdge
    /\ last = NoCall

NextEdge == NewEdge \/ NewElementsEdge \/ SetPoints \/ InvertTwice

SpecEdge == InitEdge /\ [][NextEdge]_vars

\* The points the collinearity test is called on: the first of the three is
\* one of two points, the other two are taken from the grid of coordinates
\* -1, 0 and 1.
FirstPoints == {<<0, 0, 0>>, <<1, 1, 0>>}

GridPoints == {<<x, y, z>> : x \in -1..1, y \in -1..1, z \in -1..1}

\* r = is_collinear(v0, v1, v2), the test the points setter makes for every
\* interior point v1 with its neighbours v0 and v2.
IsCollinear == \E v0 \in FirstPoints, v1 \in GridPoints, v2 \in GridPoints :
    /\ last' = [op |-> "is_collinear", arg |-> <<v0, v1, v2>>, err |-> "",
                val |-> is_collinear(v0, v1, v2), pre |-> <<>>]
    /\ UNCHANGED <<meshVars, block, edge>>

\* The test is a function of its three arguments alone: it is called here
\* with no edge, block or mesh around.
InitCollinear == InitEdge

SpecCollinear == InitCollinear /\ [][IsCollinear]_vars

\* Edge x runs from a place equal (Vertex.__eq__) to corner a of vs to one
\* equal to corner b (a, b from 0).
Runs(x, vs, a, b) ==
    Vertex_eq(x.v0, vs[a + 1]) /\ Vertex_eq(x.v1, vs[b + 1])

\* The block holds 8 vertices and 12 edges, the k-th edge running along the
\* k-th pair of BLOCK_EDGES.
EdgesFollowTable(b) ==
    /\ Len(b.vertices) = 8
    /\ Len(b.edges) = 12
    /\ \A k \in 1..12 :
          Runs(b.edges[k], b.vertices, BLOCK_EDGES[k][1], BLOCK_EDGES[k][2])

\* C14: a successful set_vertices leaves 12 edges along the table pairs; a
\* successful set_edge(e) on a block whose edges ran along the table pairs
\* leaves them so, changes one slot only, one whose pair of corners is at
\* the two ends of e, to e itself when e runs along the pair and to
\* e.invert() when it runs against it, and leaves the vertices alone.
C14_EdgesAgreeWithVertices ==
    /\ (last.op = "set_vertices" /\ last.err = "") => EdgesFollowTable(block)
    /\ (last.op = "set_edge" /\ last.err = "" /\ EdgesFollowTable(last.pre)) =>
          /\ EdgesFollowTable(block)
          /\ block.vertices = last.pre.vertices
          /\ \E k \in 1..12 :
                LET a == BLOCK_EDGES[k][1]
                    b == BLOCK_EDGES[k][2]
                    e == last.arg
                IN  /\ Runs(e, block.vertices, a, b) \/ Runs(e, block.vertices, b, a)
                    /\ block = [last.pre EXCEPT !.edges[k] =
                                   IF Runs(e, block.vertices, a, b)
                                   THEN e ELSE invert(e).val]

\* C14's case: an edge handed over against its table pair was stored
\* inverted in a block that already held a customised edge.
C14_Witness ==
    /\ last.op = "set_edge"
    /\ last.err = ""
    /\ EdgesFollowTable(last.pre)
    /\ \E k \in 1..12 : last.pre.edges[k].cls # "LineEdge"
    /\ \E k \in 1..12 :
          /\ block.edges[k] # last.pre.edges[k]
          /\ block.edges[k].v0 = last.arg.v1
          /\ block.edges[k].cls = last.arg.cls

\* C13: assigning a list or tuple of 3 levels stores them as simple grading
\* and one of 12 levels as edge grading; any other value raises TypeError or
\* ValueError and leaves the block as it was; and in every state the grading
\* type is simple exactly when 3 levels are stored and edge exactly when 12.
C13_GradingSetter ==
    /\ last.op = "grading" =>
          IF last.arg.py \in {"list", "tuple"} /\ Len(last.arg.items) \in {3, 12}
          THEN /\ last.err = ""
               /\ block.grading = last.arg.items
               /\ block.grading_type =
                      (IF Len(last.arg.items) = 3 THEN "simple" ELSE "edge")
               /\ block = [last.pre EXCEPT !.grading = block.grading,
                                            !.grading_type = block.grading_type]
          ELSE /\ last.err \in {"TypeError", "ValueError"}
               /\ block = last.pre
    /\ block.grading_type = "simple" <=> Len(block.grading) = 3
    /\ block.grading_type = "edge" <=> Len(block.grading) = 12

\* C13's case: a value of 13 levels is refused by a block with edge grading.
C13_Witness ==
    /\ last.op = "grading"
    /\ Len(last.arg.items) = 13
    /\ last.err = "ValueError"
    /\ block.grading_type = "edge"
    /\ Len(block.grading) = 12

\* The corner of block b that an argument of Block.edge names (from 0; -1
\* when it names none): the index itself, or the first corner equal to the
\* vertex.
Corner(b, x) ==
    IF x.py = "int" THEN (IF x.val \in 0..7 THEN x.val ELSE -1)
    ELSE vertices_index(b.vertices, x.val)

\* C15: when the two arguments of Block.edge name corners that one of the 12
\* table pairs joins, in a block whose edges run along the table pairs, the
\* call returns an edge from the corner named first to the corner named
\* second, the stored edge of that pair or its inverse, whether the corners
\* come as vertices or as local indices.
C15_EdgeLookupOriented ==
    (/\ last.op = "edge"
     /\ EdgesFollowTable(last.pre)
     /\ \E k \in 1..12 :
           {Corner(last.pre, last.arg[1]), Corner(last.pre, last.arg[2])}
               = {BLOCK_EDGES[k][1], BLOCK_EDGES[k][2]}) =>
        LET c0 == Corner(last.pre, last.arg[1])
            c1 == Corner(last.pre, last.arg[2])
            k == block_edges_index(ordered(<<c0, c1>>)) + 1
        IN  /\ last.err = ""
            /\ Runs(last.val, last.pre.vertices, c0, c1)
            /\ \/ last.val = last.pre.edges[k]
               \/ last.val = invert(last.pre.edges[k]).val
            /\ block = last.pre

-----------------------------------------------------------------------------
(* Claims about edges, checked under SpecEdge.                             *)

\* C9: constructing an edge of any class with two endpoints of equal
\* coordinates, the same object or two objects, raises ValueError and
\* returns no edge; no mesh is involved.
C9_ZeroLengthRejected ==
    (last.op = "new" /\ coords(last.arg.v0) = coords(last.arg.v1)) =>
        /\ last.err = "ValueError"
        /\ last.val = <<>>
        /\ edge = NoEdge
        /\ MeshIdle

\* C9's case: a spline between two distinct objects at the same place.
C9_Witness ==
    /\ last.op = "new"
    /\ last.arg.cls = "SplineEdge"
    /\ last.arg.v0 # last.arg.v1
    /\ coords(last.arg.v0) = coords(last.arg.v1)
    /\ last.err = "ValueError"

\* The 1-based positions of the interior points of ps that lie on the line
\* through their two neighbours in v0, ps[1], ..., ps[n], v1.
CollinearPositions(v0, ps, v1) ==
    LET full == <<coords(v0)>> \o ps \o <<coords(v1)>>
    IN  {i \in 1..Len(ps) :
            Cross(Minus(full[i], full[i + 1]), Minus(full[i], full[i + 2]))
                = <<0, 0, 0>>}

\* s is the list ps cut down to the positions in keep, in the order of ps.
KeptAt(ps, keep, s) ==
    /\ Len(s) = Cardinality(keep)
    /\ \A j \in 1..Len(s) :
          \E i \in keep : Cardinality({h \in keep : h < i}) = j - 1 /\ s[j] = ps[i]

\* The point list the last call assigned to an elements.Edge.
Assigned == IF last.op = "points" THEN last.arg ELSE last.arg.data

\* C10: after a well-formed point list is assigned, the stored points are
\* input points in input order, none of them one that was collinear with its
\* neighbours; when every interior point was collinear the stored list is
\* empty and the edge is a straight line (type None).
C10_CollinearPointsDropped ==
    (/\ last.op = "points" \/ (last.op = "new" /\ last.arg.cls = "Edge")
     /\ last.err = ""
     /\ Len(Assigned) > 0) =>
        LET gone == CollinearPositions(edge.v0, Assigned, edge.v1)
        IN  /\ \E keep \in SUBSET ((1..Len(Assigned)) \ gone) :
                  KeptAt(Assigned, keep, edge.points)
            /\ (gone = 1..Len(Assigned)) =>
                  (edge.points = <<>> /\ type(edge) = "None")

\* The curve data of an edge: the points of an elements.Edge, the data field
\* (midpoint, origin and factor, points or surfaces) of the other classes.
curve(e) == IF e.cls = "Edge" THEN e.points ELSE e.data

\* C11: for every edge e of every class, whatever was assigned to it before,
\* e.invert().invert() raises nothing and returns an edge of the class of e
\* with the endpoints of e in the same order, the type of e and the curve
\* data of e (points in the same order, midpoint, origin and factor, surface
\* list).
C11_InvertIsInvolution ==
    last.op = "invert_invert" =>
        /\ last.err = ""
        /\ last.val.cls = last.pre.cls
        /\ last.val.v0 = last.pre.v0
        /\ last.val.v1 = last.pre.v1
        /\ type(last.val) = type(last.pre)
        /\ curve(last.val) = curve(last.pre)

-----------------------------------------------------------------------------
(* The Mesh registry (tetris/mesh.py).  The elements handed to it are      *)
(* objects built beforehand with the constructors above; each is named by  *)
(* a number, and its id attribute lives in vertex_id, edge_id, block_id or *)
(* patch_id (-1 until a mesh registers it).                                *)

\* Block objects: 1 and 2 are the two cubes with their default edges; 3 is a
\* second block on the corners of cube B whose edge 0-1 was set to an arc
\* that ends at object 13, not at the corner object 9 it coincides with.
\* Block 2 was given a cellZone and block 3 a description.
BlockTable ==
    << from_vertices(CubeA).self,
       [from_vertices(CubeB).self EXCEPT !.cellZone = "fluid"],
       [set_edge(from_vertices(CubeB).self,
                 ArcOriginEdge(2, 13, <<0, 0, 0>>, 1).val).self
           EXCEPT !.description = "arc on edge 0"] >>

BlockObjs == DOMAIN BlockTable

\* Edge objects: 12 per block in slot order (object 12 * (b - 1) + k is slot
\* k of block b), then a spline of its own and a straight elements.Edge
\* (37, 38), then one edge of each remaining class and an elements.Edge
\* through two points (39 to 43), then two more splines with the endpoints
\* and the point of 37, one in its direction and one against it (44, 45),
\* an elements.Edge made with type 'spline' and no points (46), and an
\* elements.Edge through one point to which a list of two-dimensional points
\* was assigned afterwards, the TypeError caught (47).
EdgeTable ==
    BlockTable[1].edges \o BlockTable[2].edges \o BlockTable[3].edges
    \o << SplineEdge(13, 4, << <<1, 1, 0>> >>).val,
          Edge(1, 2, <<>>, "None").val,
          ArcMidEdge(1, 2, <<1, 1, 0>>).val,
          BSplineEdge(1, 8, << <<1, 0, 0>>, <<1, 1, 0>> >>).val,
          PolyLineEdge(1, 10, << <<1, 0, 0>>, <<1, 1, 0>> >>).val,
          ProjectEdge(1, 2, <<"sphere">>).val,
          Edge(1, 9, << <<1, 1, 0>>, <<1, 0, 0>> >>, "spline").val,
          SplineEdge(13, 4, << <<1, 1, 0>> >>).val,
          SplineEdge(4, 13, << <<1, 1, 0>> >>).val,
          Edge(1, 2, <<>>, "spline").val,
          points_setter(Edge(1, 9, << <<1, 1, 0>> >>, "spline").val,
                        << <<1, 0>> >>).self >>

EdgeObjs == DOMAIN EdgeTable

block_vertices(b) == BlockTable[b].vertices

block_edges(b) == [k \in 1..Len(BlockTable[b].edges) |-> 12 * (b - 1) + k]

\* Patch objects: Patch(name, type, faces).
PatchTable ==
    << [name |-> "inlet", type |-> "patch",
        faces |-> <<face(BlockTable[1], "left").val>>],
       [name |-> "outlet", type |-> "patch",
        faces |-> <<face(BlockTable[2], "right").val>>] >>

PatchObjs == DOMAIN PatchTable

MeshIds == {1, 2}

\* Mesh.__init__
Mesh_init ==
    [ids |-> [vertex |-> 0, block |-> 0, patch |-> 0, edge |-> 0],
     scale |-> 1,
     geometries |-> <<>>, vertices |-> <<>>, blocks |-> <<>>, edges |-> <<>>,
     faces |-> <<>>, patches |-> <<>>, merge_patch_pairs |-> <<>>]

\* The objects a Mesh method can touch: every mesh and every id attribute.
World == [mesh |-> mesh, vertex_id |-> vertex_id, edge_id |-> edge_id,
          block_id |-> block_id, patch_id |-> patch_id]

\* Mesh.add_vertex as it would read without the increment of the counter.
add_vertex_same_id(w, m, vertex) ==
    IF w.vertex_id[vertex] < 0
    THEN [w EXCEPT !.mesh[m].vertices = Append(@, vertex),
                   !.vertex_id[vertex] = w.mesh[m].ids.vertex]
    ELSE w

\* Mesh.add_vertex as it would read without the test of vertex.id.
add_vertex_always(w, m, vertex) ==
    [w EXCEPT !.mesh[m].vertices = Append(@, vertex),
              !.vertex_id[vertex] = w.mesh[m].ids.vertex,
              !.mesh[m].ids.vertex = @ + 1]

\* Mesh.add_vertex
add_vertex(w, m, vertex) ==
    IF w.vertex_id[vertex] < 0
    THEN [w EXCEPT !.mesh[m].vertices = Append(@, vertex),
                   !.vertex_id[vertex] = w.mesh[m].ids.vertex,
                   !.mesh[m].ids.vertex = @ + 1]
    ELSE w

\* Mesh.add_edge as it would read if an edge between the endpoints of an
\* edge of the list were left out.
add_edge_once_per_pair(w, m, e) ==
    IF type(EdgeTable[e]) = "None"
    THEN w
    ELSE LET w1 == add_vertex(add_vertex(w, m, EdgeTable[e].v0), m, EdgeTable[e].v1)
             listed == w1.mesh[m].edges
         IN  IF /\ w1.edge_id[e] < 0
                /\ ~\E i \in 1..Len(listed) :
                      {EdgeTable[listed[i]].v0, EdgeTable[listed[i]].v1}
                          = {EdgeTable[e].v0, EdgeTable[e].v1}
             THEN [w1 EXCEPT !.mesh[m].edges = Append(@, e),
                             !.edge_id[e] = w1.mesh[m].ids.edge,
                             !.mesh[m].ids.edge = @ + 1]
             ELSE w1

\* Mesh.add_edge: nothing for an edge whose type is None; otherwise both
\* endpoints, then the edge if it has no id yet.
add_edge(w, m, e) ==
    IF type(EdgeTable[e]) = "None"
    THEN w
    ELSE LET w1 == add_vertex(add_vertex(w, m, EdgeTable[e].v0), m, EdgeTable[e].v1)
         IN  IF w1.edge_id[e] < 0
             THEN [w1 EXCEPT !.mesh[m].edges = Append(@, e),
                             !.edge_id[e] = w1.mesh[m].ids.edge,
                             !.mesh[m].ids.edge = @ + 1]
             ELSE w1

RECURSIVE add_vertices(_, _, _)
\* for vertex in block.vertices: self.add_vertex(vertex)
\* The loop over a list is the loop over its first half, then, from the
\* world x that one leaves, the loop over the rest.
add_vertices(w, m, vs) ==
    IF Len(vs) = 0 THEN w
    ELSE IF Len(vs) = 1 THEN add_vertex(w, m, vs[1])
    ELSE LET h == Len(vs) \div 2
         IN  CHOOSE w2 \in {add_vertices(x, m, SubSeq(vs, h + 1, Len(vs))) :
                               x \in {add_vertices(w, m, SubSeq(vs, 1, h))}} : TRUE

RECURSIVE add_edges(_, _, _)
\* for edge in block.edges: self.add_edge(edge)
add_edges(w, m, es) ==
    IF Len(es) = 0 THEN w
    ELSE IF Len(es) = 1 THEN add_edge(w, m, es[1])
    ELSE LET h == Len(es) \div 2
         IN  CHOOSE w2 \in {add_edges(x, m, SubSeq(es, h + 1, Len(es))) :
                               x \in {add_edges(w, m, SubSeq(es, 1, h))}} : TRUE

\* The last step of add_block: the block itself, if it has no id yet.
append_block(w, m, b) ==
    IF w.block_id[b] < 0
    THEN [w EXCEPT !.mesh[m].blocks = Append(@, b),
                   !.block_id[b] = w.mesh[m].ids.block,
                   !.mesh[m].ids.block = @ + 1]
    ELSE w

\* Mesh.add_block as it would read with the two loops in the other order.
add_block_edges_first(w, m, b) ==
    append_block(add_vertices(add_edges(w, m, block_edges(b)), m, block_vertices(b)),
                 m, b)

\* Mesh.add_block (for a Block): its vertices, then its edges, then itself.
add_block(w, m, b) ==
    append_block(add_edges(add_vertices(w, m, block_vertices(b)), m, block_edges(b)),
                 m, b)

\* Mesh.add_patch as it would read with the patch put in front of the list.
add_patch_in_front(w, m, patch) ==
    IF w.patch_id[patch] < 0
    THEN [w EXCEPT !.mesh[m].patches = <<patch>> \o @,
                   !.patch_id[patch] = w.mesh[m].ids.patch,
                   !.mesh[m].ids.patch = @ + 1]
    ELSE w

\* Mesh.add_patch
add_patch(w, m, patch) ==
    IF w.patch_id[patch] < 0
    THEN [w EXCEPT !.mesh[m].patches = Append(@, patch),
                   !.patch_id[patch] = w.mesh[m].ids.patch,
                   !.mesh[m].ids.patch = @ + 1]
    ELSE w

\* PatchPair(master, slave)
PatchPair(master, slave) == [master |-> master, slave |-> slave]

\* Mesh.add_mergePatchPairs
add_mergePatchPairs(w, m, master, slave) ==
    LET w1 == add_patch(add_patch(w, m, master), m, slave)
    IN  [w1 EXCEPT !.mesh[m].merge_patch_pairs = Append(@, PatchPair(master, slave))]

\* TriSurfaceMesh(name, file): the geometry objects of the model.
GeometryTable ==
    << [cls |-> "TriSurfaceMesh", name |-> "sphere", file |-> "sphere.stl"],
       [cls |-> "TriSurfaceMesh", name |-> "wing", file |-> "wing.stl"] >>

GeometryObjs == DOMAIN GeometryTable

\* Face(vertices, geometry): the face objects of the model.
FaceTable ==
    << [vertices |-> face(BlockTable[1], "left").val, geometry |-> 1],
       [vertices |-> face(BlockTable[2], "right").val, geometry |-> 2] >>

FaceObjs == DOMAIN FaceTable

\* A Python value handed to a Mesh method: py is its class, val the object
\* of that class (its number in the table of the class; 0 for a value that
\* is no element of a mesh, such as a str or None).
PyValue(py, val) == [py |-> py, val |-> val]

\* isinstance(x, cls): Geometry is the only class here with a subclass.
isinstance(x, cls) ==
    \/ x.py = cls
    \/ cls = "Geometry" /\ x.py = "TriSurfaceMesh"

\* hasattr(x, "id"): every BlockMeshElement subclass has the class
\* attribute id; a str or None has none.
has_id(x) == x.py \in {"Vertex", "Block", "Patch", "Face", "TriSurfaceMesh",
                       "PatchPair"}

\* What a Mesh method leaves: the exception raised ("" for none) and the
\* objects as they are when the call ends.
MeshOutcome(err, w) == [err |-> err, w |-> w]

\* Mesh.add_geometry as it would read with the append before the type test.
Mesh_add_geometry_append_first(w, m, geometry) ==
    LET w1 == [w EXCEPT !.mesh[m].geometries = Append(@, geometry.val)]
    IN  IF ~isinstance(geometry, "Geometry")
        THEN MeshOutcome("TypeError", w1)
        ELSE MeshOutcome("", w1)

\* Mesh.add_geometry
Mesh_add_geometry(w, m, geometry) ==
    IF ~isinstance(geometry, "Geometry")
    THEN MeshOutcome("TypeError", w)
    ELSE MeshOutcome("", [w EXCEPT !.mesh[m].geometries = Append(@, geometry.val)])

\* Mesh.add_block, from its type test on.
Mesh_add_block(w, m, b) ==
    IF ~isinstance(b, "Block")
    THEN MeshOutcome("TypeError", w)
    ELSE MeshOutcome("", add_block(w, m, b.val))

\* Mesh.add_face
Mesh_add_face(w, m, f) ==
    IF ~isinstance(f, "Face")
    THEN MeshOutcome("TypeError", w)
    ELSE MeshOutcome("", [w EXCEPT !.mesh[m].faces = Append(@, f.val)])

\* Mesh.add_patch, from the read of patch.id on: the method has no type
\* test, and a value without the attribute id ends it with AttributeError.
\* (The values handed over here are patches and values without id.)
Mesh_add_patch(w, m, patch) ==
    IF ~has_id(patch)
    THEN MeshOutcome("AttributeError", w)
    ELSE MeshOutcome("", add_patch(w, m, patch.val))

\* Mesh.add_mergePatchPairs: add_patch(master), add_patch(slave), then the
\* append of the pair; an exception of either add_patch ends the call with
\* what was done until then.
Mesh_add_mergePatchPairs(w, m, master, slave) ==
    LET o1 == Mesh_add_patch(w, m, master)
        o2 == Mesh_add_patch(o1.w, m, slave)
    IN  IF o1.err # "" THEN o1
        ELSE IF o2.err # "" THEN o2
        ELSE MeshOutcome("", [o2.w EXCEPT !.mesh[m].merge_patch_pairs =
                                Append(@, PatchPair(master.val, slave.val))])

-----------------------------------------------------------------------------
(* Mesh._render and BLOCKMESHDICT_TEMPLATE.  A rendered document is the    *)
(* sequence of its sections; an entry of a list section stands for the     *)
(* line x.write() of the object x.                                         *)

TETRIS_VERSION == "0.1.0"

Section(name, entries) == [name |-> name, entries |-> entries]

\* {% if x %} ... {% endif %} around a section: a list or a string is true
\* when it is not empty.
IfSection(name, entries) ==
    IF Len(entries) = 0 THEN <<>> ELSE <<Section(name, entries)>>

\* f"v{self.id}" and f"b{self.id}": a symbolic name made of an id.
Name(prefix, id) == [form |-> "name", prefix |-> prefix, id |-> id]

\* tetris.io.int2foam: the digits of the number.
int2foam(value) == [form |-> "int", id |-> value]

\* tetris.io.comment: "" or the " // string" that ends a line, here the
\* list of the strings written.
comment(string) == IF string = "" THEN <<>> ELSE <<string>>

\* Vertex.name as it would read if it were the bare id.
Vertex_name_bare(w, v) == int2foam(w.vertex_id[v])

\* Vertex.name
Vertex_name(w, v) == Name("v", w.vertex_id[v])

\* Vertex.write
Vertex_write(w, v) == [name |-> Vertex_name(w, v), coords |-> coords(v)]

\* Block.write as it would read with the vertices sorted by id.
Block_write_sorted(w, b) ==
    LET self == BlockTable[b]
        byId == SortSeq(self.vertices,
                        LAMBDA x, y : w.vertex_id[x] < w.vertex_id[y])
    IN  [name |-> Name("b", w.block_id[b]),
         hex |-> [k \in 1..Len(byId) |-> Vertex_name(w, byId[k])],
         cellZone |-> IF self.cellZone # "" THEN <<self.cellZone>> ELSE <<>>,
         ncells |-> self.ncells,
         grading_type |-> self.grading_type,
         grading |-> self.grading,
         comment |-> comment(self.description)]

\* Block.write: the parts of the line in the order they are written; an
\* optional part is the list of what is written for it.
Block_write(w, b) ==
    LET self == BlockTable[b]
    IN  [name |-> Name("b", w.block_id[b]),
         hex |-> [k \in 1..Len(self.vertices) |-> Vertex_name(w, self.vertices[k])],
         cellZone |-> IF self.cellZone # "" THEN <<self.cellZone>> ELSE <<>>,
         ncells |-> self.ncells,
         grading_type |-> self.grading_type,
         grading |-> self.grading,
         comment |-> comment(self.description)]

\* Edge.write of elements.py: type, the bare ids of both ends, then the
\* point of an arc, or else both end coordinates around the points.
elements_Edge_write(w, e) ==
    LET self == EdgeTable[e]
    IN  [type |-> self.type, v0 |-> int2foam(w.vertex_id[self.v0]),
         v1 |-> int2foam(w.vertex_id[self.v1]),
         data |-> IF self.type # "arc"
                  THEN <<coords(self.v0)>> \o self.points \o <<coords(self.v1)>>
                  ELSE self.points[1]]

\* write of the edge classes of blockmesh/edge.py: type, the names of both
\* ends, then what the class adds.
Edge_write(w, e) ==
    LET self == EdgeTable[e]
    IN  IF self.cls = "Edge" THEN elements_Edge_write(w, e)
        ELSE [type |-> type(self), v0 |-> Vertex_name(w, self.v0),
              v1 |-> Vertex_name(w, self.v1),
              data |-> IF self.cls = "LineEdge" THEN <<>> ELSE curve(self)]

\* Face.write
Face_write(w, f) ==
    LET self == FaceTable[f]
    IN  [vertices |-> [k \in 1..Len(self.vertices) |-> Vertex_name(w, self.vertices[k])],
         geometry |-> GeometryTable[self.geometry].name]

\* Patch.write as it would read with the names of the vertices.
Patch_write_names(w, p) ==
    LET self == PatchTable[p]
    IN  [type |-> self.type, name |-> self.name,
         faces |-> [i \in 1..Len(self.faces) |->
                      [k \in 1..Len(self.faces[i]) |->
                          Vertex_name(w, self.faces[i][k])]]]

\* Patch.write: ids = [[f.id for f in face] for face in self.faces], each
\* id written by int2foam.
Patch_write(w, p) ==
    LET self == PatchTable[p]
    IN  [type |-> self.type, name |-> self.name,
         faces |-> [i \in 1..Len(self.faces) |->
                      [k \in 1..Len(self.faces[i]) |->
                          int2foam(w.vertex_id[self.faces[i][k]])]]]

\* PatchPair.write
PatchPair_write(pp) ==
    <<PatchTable[pp.master].name, PatchTable[pp.slave].name>>

\* TriSurfaceMesh.write
Geometry_write(g) ==
    [name |-> GeometryTable[g].name, type |-> "triSurfaceMesh",
     file |-> GeometryTable[g].file]

\* {% for x in xs %} {{ x.write() }} {% endfor %} for each list of the
\* template: one line per element, in list order; obj is the element the
\* line was written for.
for_geometries(w, xs) ==
    [i \in 1..Len(xs) |-> [obj |-> xs[i], line |-> Geometry_write(xs[i])]]

for_vertices(w, xs) ==
    [i \in 1..Len(xs) |-> [obj |-> xs[i], line |-> Vertex_write(w, xs[i])]]

for_blocks(w, xs) ==
    [i \in 1..Len(xs) |-> [obj |-> xs[i], line |-> Block_write(w, xs[i])]]

for_edges(w, xs) ==
    [i \in 1..Len(xs) |-> [obj |-> xs[i], line |-> Edge_write(w, xs[i])]]

for_faces(w, xs) ==
    [i \in 1..Len(xs) |-> [obj |-> xs[i], line |-> Face_write(w, xs[i])]]

for_patches(w, xs) ==
    [i \in 1..Len(xs) |-> [obj |-> xs[i], line |-> Patch_write(w, xs[i])]]

for_mergePatchPairs(w, xs) ==
    [i \in 1..Len(xs) |-> [obj |-> xs[i], line |-> PatchPair_write(xs[i])]]

\* BLOCKMESHDICT_TEMPLATE as it would read with the faces block above the
\* edges block.
Template_render_faces_first(ctx) ==
    <<Section("comment", <<ctx.version>>)>>
    \o IfSection("header", IF ctx.header = "" THEN <<>> ELSE <<ctx.header>>)
    \o <<Section("FoamFile", <<>>), Section("scale", <<ctx.scale>>)>>
    \o IfSection("geometry", for_geometries(ctx.w, ctx.geometries))
    \o <<Section("vertices", for_vertices(ctx.w, ctx.vertices)),
         Section("blocks", for_blocks(ctx.w, ctx.blocks))>>
    \o IfSection("faces", for_faces(ctx.w, ctx.faces))
    \o IfSection("edges", for_edges(ctx.w, ctx.edges))
    \o IfSection("patches", for_patches(ctx.w, ctx.patches))
    \o IfSection("mergePatchPairs", for_mergePatchPairs(ctx.w, ctx.mergePatchPairs))
    \o <<Section("end", <<>>)>>
    \o IfSection("footer", IF ctx.footer = "" THEN <<>> ELSE <<ctx.footer>>)

\* Template(BLOCKMESHDICT_TEMPLATE).render(**ctx).  The context of _render
\* has no defaultPatch and no boundary, so these two blocks are never
\* written.  ctx.w stands for the attributes the objects of the lists carry
\* when write() reads them.
Template_render(ctx) ==
    <<Section("comment", <<ctx.version>>)>>
    \o IfSection("header", IF ctx.header = "" THEN <<>> ELSE <<ctx.header>>)
    \o <<Section("FoamFile", <<>>), Section("scale", <<ctx.scale>>)>>
    \o IfSection("geometry", for_geometries(ctx.w, ctx.geometries))
    \o <<Section("vertices", for_vertices(ctx.w, ctx.vertices)),
         Section("blocks", for_blocks(ctx.w, ctx.blocks))>>
    \o IfSection("edges", for_edges(ctx.w, ctx.edges))
    \o IfSection("faces", for_faces(ctx.w, ctx.faces))
    \o IfSection("patches", for_patches(ctx.w, ctx.patches))
    \o IfSection("mergePatchPairs", for_mergePatchPairs(ctx.w, ctx.mergePatchPairs))
    \o <<Section("end", <<>>)>>
    \o IfSection("footer", IF ctx.footer = "" THEN <<>> ELSE <<ctx.footer>>)

\* The edges handed to the template as they would be if the filtered list
\* were built back to front.
rendered_edges_reversed(edges) ==
    Reverse(SelectSeq(edges, LAMBDA e : type(EdgeTable[e]) # "line"))

\* The edges handed to the template as they would be without the filter.
rendered_edges_unfiltered(edges) == edges

\* [edge for edge in self.edges if edge.type != "line"]
RECURSIVE rendered_edges(_)
rendered_edges(edges) ==
    IF Len(edges) = 0 THEN <<>>
    ELSE LET rest == rendered_edges(SubSeq(edges, 2, Len(edges)))
         IN  IF type(EdgeTable[edges[1]]) # "line" THEN <<edges[1]>> \o rest
             ELSE rest

\* Mesh._render
Mesh_render(w, m, header, footer) ==
    LET self == w.mesh[m]
    IN  Template_render([header |-> header, footer |-> footer,
                         version |-> TETRIS_VERSION, scale |-> self.scale,
                         geometries |-> self.geometries,
                         vertices |-> self.vertices,
                         blocks |-> self.blocks,
                         edges |-> rendered_edges(self.edges),
                         faces |-> self.faces,
                         patches |-> self.patches,
                         mergePatchPairs |-> self.merge_patch_pairs,
                         w |-> w])

-----------------------------------------------------------------------------
(* The calls made on the meshes.                                           *)

MaxOps == 3

\* Arguments of the direct calls.
VertexArgs == {1, 13}

EdgeObjArgs == {2, 25, 37, 38, 44, 45, 46}

PatchPairArgs ==
    {<<PyValue("Patch", 1), PyValue("Patch", 2)>>,
     <<PyValue("Patch", 2), PyValue("Patch", 1)>>,
     <<PyValue("Patch", 1), PyValue("str", 0)>>,
     <<PyValue("str", 0), PyValue("Patch", 2)>>}

InvertArgs == {2, 25, 37, 38, 39, 40, 41, 42, 43, 47}

MeshCall(op, m, arg, w) ==
    /\ nops < MaxOps
    /\ nops' = nops + 1
    /\ mesh' = w.mesh
    /\ vertex_id' = w.vertex_id
    /\ edge_id' = w.edge_id
    /\ block_id' = w.block_id
    /\ patch_id' = w.patch_id
    /\ last' = [op |-> op, m |-> m, arg |-> arg, err |-> "", val |-> <<>>,
                pre |-> World]
    /\ UNCHANGED <<block, edge>>

AddVertex == \E m \in MeshIds, v \in VertexArgs :
    MeshCall("add_vertex", m, v, add_vertex(World, m, v))

AddEdge == \E m \in MeshIds, e \in EdgeObjArgs :
    MeshCall("add_edge", m, e, add_edge(World, m, e))

\* A call m.op(x) with a value x that the method may refuse: last.given is
\* the value with its class, last.arg the object alone.
MeshTry(op, m, x, arg, out) ==
    /\ nops < MaxOps
    /\ nops' = nops + 1
    /\ mesh' = out.w.mesh
    /\ vertex_id' = out.w.vertex_id
    /\ edge_id' = out.w.edge_id
    /\ block_id' = out.w.block_id
    /\ patch_id' = out.w.patch_id
    /\ last' = [op |-> op, m |-> m, arg |-> arg, given |-> x,
                err |-> out.err, val |-> <<>>, pre |-> World]
    /\ UNCHANGED <<block, edge>>

\* The values of another class, or of no mesh class, handed to the methods.
NotABlock == {PyValue("Patch", 1), PyValue("str", 0)}

NotAGeometry == {PyValue("Block", 1), PyValue("str", 0)}

NotAFace == {PyValue("Patch", 1), PyValue("NoneType", 0)}

NotAPatch == {PyValue("str", 0), PyValue("NoneType", 0)}

BlockArgs == {PyValue("Block", b) : b \in BlockObjs} \cup NotABlock

GeometryArgs == {PyValue("TriSurfaceMesh", g) : g \in GeometryObjs} \cup NotAGeometry

FaceArgs == {PyValue("Face", f) : f \in FaceObjs} \cup NotAFace

PatchArgs == {PyValue("Patch", p) : p \in PatchObjs} \cup NotAPatch

AddGeometry == \E m \in MeshIds, g \in GeometryArgs :
    MeshTry("add_geometry", m, g, g.val, Mesh_add_geometry(World, m, g))

AddBlock == \E m \in MeshIds, b \in BlockArgs :
    MeshTry("add_block", m, b, b.val, Mesh_add_block(World, m, b))

AddFace == \E m \in MeshIds, f \in FaceArgs :
    MeshTry("add_face", m, f, f.val, Mesh_add_face(World, m, f))

AddPatch == \E m \in MeshIds, p \in PatchArgs :
    MeshTry("add_patch", m, p, p.val, Mesh_add_patch(World, m, p))

AddMergePatchPairs == \E m \in MeshIds, pp \in PatchPairArgs :
    MeshTry("add_mergePatchPairs", m, pp, <<pp[1].val, pp[2].val>>,
            Mesh_add_mergePatchPairs(World, m, pp[1], pp[2]))

\* r = e.invert() on an edge object: r is a new object, whose id is the -1
\* its class starts with; no mesh and no other object is touched.
InvertEdge == \E e \in InvertArgs :
    LET out == edge_invert(EdgeTable[e])
    IN  /\ nops < MaxOps
        /\ nops' = nops + 1
        /\ last' = [op |-> "invert", m |-> 0, arg |-> e, err |-> out.err,
                    val |-> IF out.err = "" THEN [edge |-> out.val, id |-> -1]
                                            ELSE <<>>,
                    pre |-> World]
        /\ UNCHANGED <<mesh, vertex_id, edge_id, block_id, patch_id, block, edge>>

\* The free texts given to write() and print().
HeaderArgs == {"", "// case: cavity"}

FooterArgs == {"", "// end of case"}

\* Mesh.print / Mesh.write: the document of _render; nothing is assigned.
Render == \E m \in MeshIds, header \in HeaderArgs, footer \in FooterArgs :
    /\ last' = [op |-> "render", m |-> m, arg |-> <<header, footer>>,
                err |-> "", val |-> Mesh_render(World, m, header, footer),
                pre |-> <<>>]
    /\ UNCHANGED <<mesh, vertex_id, edge_id, block_id, patch_id, nops, block, edge>>

InitMesh ==
    /\ mesh = [m \in MeshIds |-> Mesh_init]
    /\ vertex_id = [v \in VertexObjs |-> -1]
    /\ edge_id = [e \in EdgeObjs |-> -1]
    /\ block_id = [b \in BlockObjs |-> -1]
    /\ patch_id = [p \in PatchObjs |-> -1]
    /\ nops = 0
    /\ block = Block_init
    /\ edge = NoEdge
    /\ last = NoCall

NextMesh == AddVertex \/ AddEdge \/ AddBlock \/ AddPatch \/ AddMergePatchPairs
              \/ InvertEdge \/ AddGeometry \/ AddFace \/ Render

SpecMesh == InitMesh /\ [][NextMesh]_vars

-----------------------------------------------------------------------------
(* Properties of the Mesh registry.                                        *)

\* The call just made was m.op(x) and ended without an exception.
Did(op) == last.op = op /\ last.err = ""

\* The four registering lists of a mesh, with the id attribute of each.
NoDup(s) == \A i, j \in 1..Len(s) : s[i] = s[j] => i = j

Numbered(s, id, counter) ==
    /\ counter = Len(s)
    /\ \A i \in 1..Len(s) : id[s[i]] = i - 1

\* The call just made handed over an object that already had an id.
Reregistered ==
    \/ last.op = "add_vertex" /\ last.pre.vertex_id[last.arg] >= 0
    \/ last.op = "add_edge" /\ last.pre.edge_id[last.arg] >= 0
    \/ Did("add_patch") /\ last.pre.patch_id[last.arg] >= 0

\* The call just made added one of the two plain cubes to a mesh that held
\* only the other one, nothing else being registered anywhere.
SecondCube ==
    /\ Did("add_block")
    /\ last.arg \in {1, 2}
    /\ \E other \in {1, 2} \ {last.arg} :
          /\ last.pre.mesh[last.m].blocks = <<other>>
          /\ last.pre.mesh[last.m].vertices = block_vertices(other)
    /\ \A m \in MeshIds \ {last.m} : last.pre.mesh[m] = Mesh_init

\* C1: no list of a mesh holds the same object twice; a call that hands over
\* a vertex, edge or patch that already has an id changes nothing, and one
\* that hands over a block that has an id leaves the block list, the block's
\* id and the block counter alone; a mesh given the two cubes that share four
\* vertex objects ends with 12 vertices.
C1_RegisteredOnce ==
    /\ \A m \in MeshIds :
          /\ NoDup(mesh[m].vertices)
          /\ NoDup(mesh[m].edges)
          /\ NoDup(mesh[m].blocks)
          /\ NoDup(mesh[m].patches)
    /\ Reregistered => World = last.pre
    /\ (Did("add_block") /\ last.pre.block_id[last.arg] >= 0) =>
          /\ \A m \in MeshIds :
                /\ mesh[m].blocks = last.pre.mesh[m].blocks
                /\ mesh[m].ids.block = last.pre.mesh[m].ids.block
          /\ block_id = last.pre.block_id
    /\ SecondCube => Len(mesh[last.m].vertices) = 12

C1_Witness ==
    /\ SecondCube
    /\ Len(mesh[last.m].vertices) = 12
    /\ Len(mesh[last.m].blocks) = 2

\* C2: in every mesh and for each of vertex, edge, block and patch, the
\* counter equals the length of the list and the element at position i of the
\* list (from 0) has id i.
C2_IdsFollowLists ==
    \A m \in MeshIds :
        /\ Numbered(mesh[m].vertices, vertex_id, mesh[m].ids.vertex)
        /\ Numbered(mesh[m].edges, edge_id, mesh[m].ids.edge)
        /\ Numbered(mesh[m].blocks, block_id, mesh[m].ids.block)
        /\ Numbered(mesh[m].patches, patch_id, mesh[m].ids.patch)

C2_Witness ==
    \E m \in MeshIds :
        /\ Len(mesh[m].vertices) >= 9
        /\ Len(mesh[m].edges) >= 12
        /\ Len(mesh[m].blocks) >= 1
        /\ Len(mesh[m].patches) >= 1

\* An edge written as a straight line: a LineEdge, or an edge without type.
IsLine(e) == type(EdgeTable[e]) \in {"line", "None"}

\* C3: add_edge with a straight-line edge changes nothing, and add_block of
\* a block whose 12 edges are all straight lines leaves the edge list, the
\* edge counter and every edge id as they were.
C3_LineEdgeIsNoOp ==
    /\ (last.op = "add_edge" /\ IsLine(last.arg)) => World = last.pre
    /\ (Did("add_block")
        /\ \A k \in 1..12 : IsLine(block_edges(last.arg)[k])) =>
          /\ mesh[last.m].edges = last.pre.mesh[last.m].edges
          /\ mesh[last.m].ids.edge = last.pre.mesh[last.m].ids.edge
          /\ edge_id = last.pre.edge_id

\* The call just made was add_block of a block none of whose corners and
\* edges, nor the block itself, had an id.
FreshBlock ==
    /\ Did("add_block")
    /\ last.pre.block_id[last.arg] < 0
    /\ \A k \in 1..8 : last.pre.vertex_id[block_vertices(last.arg)[k]] < 0
    /\ \A k \in 1..12 : last.pre.edge_id[block_edges(last.arg)[k]] < 0

\* C4: add_block of such a block on a mesh with n vertices gives corner k
\* the id n + k and the place n + k of the vertex list; both endpoints of
\* every edge of the block that is not a straight line are then vertices of
\* the mesh, one that is no corner and was not registered getting an id from
\* n + 8 on; the edges that got ids got them in slot order; and the block is
\* appended with the id the block counter had.
C4_AddBlockOrder ==
    FreshBlock =>
        LET m == last.m
            b == last.arg
            n == last.pre.mesh[m].ids.vertex
            vs == block_vertices(b)
            es == block_edges(b)
            ends(k) == {EdgeTable[es[k]].v0, EdgeTable[es[k]].v1}
        IN  /\ \A k \in 1..8 :
                  /\ vertex_id[vs[k]] = n + k - 1
                  /\ mesh[m].vertices[n + k] = vs[k]
            /\ \A k \in 1..12 : ~IsLine(es[k]) =>
                  \A v \in ends(k) :
                      /\ vertex_id[v] >= 0
                      /\ last.pre.vertex_id[v] < 0 =>
                            \/ \E c \in 1..8 : vs[c] = v
                            \/ /\ vertex_id[v] >= n + 8
                               /\ mesh[m].vertices[vertex_id[v] + 1] = v
            /\ \A j, k \in 1..12 :
                  (j < k /\ edge_id[es[j]] >= 0 /\ edge_id[es[k]] >= 0) =>
                      edge_id[es[j]] < edge_id[es[k]]
            /\ block_id[b] = last.pre.mesh[m].ids.block
            /\ mesh[m].blocks = Append(last.pre.mesh[m].blocks, b)
            /\ mesh[m].ids.block = last.pre.mesh[m].ids.block + 1

C4_Witness ==
    /\ FreshBlock
    /\ last.arg = 3
    /\ last.pre.mesh[last.m].ids.vertex = 1
    /\ vertex_id[13] = 9
    /\ block_id[3] = 0

\* C12: for every edge e, whatever was assigned to it before, e.invert()
\* raises nothing and returns a new edge of the class of e, without id, from
\* e.v1 to e.v0, with the points of e in reverse order for a sequence edge
\* (and an elements.Edge) and the midpoint, origin and factor or surfaces of
\* e otherwise; e, its id, and every mesh stay as they were.
C12_InvertReturnsNewEdge ==
    last.op = "invert" =>
        LET e == EdgeTable[last.arg]
            r == last.val.edge
        IN  /\ last.err = ""
            /\ last.val.id < 0
            /\ r.cls = e.cls
            /\ r.v0 = e.v1
            /\ r.v1 = e.v0
            /\ type(r) = type(e)
            /\ IF e.cls \in {"SplineEdge", "BSplineEdge", "PolyLineEdge", "Edge"}
               THEN /\ Len(curve(r)) = Len(curve(e))
                    /\ \A i \in 1..Len(curve(e)) :
                          curve(r)[i] = curve(e)[Len(curve(e)) + 1 - i]
               ELSE curve(r) = curve(e)
            /\ World = last.pre

\* The call just made handed a value of the wrong class to add_block,
\* add_geometry or add_face.
WrongClass ==
    \/ last.op = "add_block" /\ last.given \in NotABlock
    \/ last.op = "add_geometry" /\ last.given \in NotAGeometry
    \/ last.op = "add_face" /\ last.given \in NotAFace

\* C16: add_block with a value that is no Block, add_geometry with one that
\* is no Geometry and add_face with one that is no Face raise TypeError and
\* leave every list and counter of every mesh, and every id, as they were.
C16_TypeErrorBeforeMutation ==
    WrongClass => (last.err = "TypeError" /\ World = last.pre)

C16_Witness ==
    /\ last.op = "add_geometry"
    /\ last.given = PyValue("Block", 1)
    /\ last.err = "TypeError"
    /\ Len(mesh[last.m].blocks) = 1
    /\ Len(mesh[last.m].geometries) = 1

\* The patch list, patch counter and merge pairs of every mesh, and the
\* patch ids, are as before the call just made.
PatchesUntouched ==
    /\ \A m \in MeshIds :
          /\ mesh[m].patches = last.pre.mesh[m].patches
          /\ mesh[m].ids.patch = last.pre.mesh[m].ids.patch
          /\ mesh[m].merge_patch_pairs = last.pre.mesh[m].merge_patch_pairs
    /\ patch_id = last.pre.patch_id

\* C17: add_patch with a value that is no Patch, and add_mergePatchPairs
\* with a master or slave that is no Patch, raise TypeError and leave the
\* patch list, the patch counter, the patch ids and the merge pairs as they
\* were; a valid master given with an invalid slave is not registered.
C17_PatchTypeError ==
    /\ (last.op = "add_patch" /\ last.given \in NotAPatch) =>
          (last.err = "TypeError" /\ PatchesUntouched)
    /\ (last.op = "add_mergePatchPairs"
        /\ (last.given[1] \in NotAPatch \/ last.given[2] \in NotAPatch)) =>
          (last.err = "TypeError" /\ PatchesUntouched)

\* The part of C17 that the code violates whatever the exception is called:
\* the master stays unregistered when the slave is refused.
C17_MasterNotRegistered ==
    (last.op = "add_mergePatchPairs" /\ last.err # "") => PatchesUntouched

\* The number of places of list s that hold x.
Count(s, x) == Cardinality({i \in 1..Len(s) : s[i] = x})

\* C18: add_mergePatchPairs(master, slave) with two patches leaves each with
\* an id and once in the patch list of the mesh, the master numbered before
\* the slave when both were new; it appends the one record (master, slave)
\* to the merge pairs, the earlier records staying in place; and with both
\* patches registered before, patch list, counter and ids stay as they were.
C18_MergePairsAppend ==
    Did("add_mergePatchPairs") =>
        LET m == last.m
            master == last.arg[1]
            slave == last.arg[2]
            old == last.pre
        IN  /\ patch_id[master] >= 0
            /\ patch_id[slave] >= 0
            /\ Count(mesh[m].patches, master) = 1
            /\ Count(mesh[m].patches, slave) = 1
            /\ (old.patch_id[master] < 0 /\ old.patch_id[slave] < 0) =>
                  /\ patch_id[master] = old.mesh[m].ids.patch
                  /\ patch_id[slave] = old.mesh[m].ids.patch + 1
            /\ mesh[m].merge_patch_pairs =
                  Append(old.mesh[m].merge_patch_pairs, PatchPair(master, slave))
            /\ (old.patch_id[master] >= 0 /\ old.patch_id[slave] >= 0) =>
                  /\ mesh[m].patches = old.mesh[m].patches
                  /\ mesh[m].ids.patch = old.mesh[m].ids.patch
                  /\ patch_id = old.patch_id

\* The order of the sections of the template.
SectionOrder ==
    <<"comment", "header", "FoamFile", "scale", "geometry", "vertices",
      "blocks", "edges", "faces", "patches", "mergePatchPairs", "end",
      "footer">>

Rank(name) == CHOOSE k \in 1..Len(SectionOrder) : SectionOrder[k] = name

\* The lines of the section called name of document doc (<<>> if absent).
Written(doc, name) ==
    IF \E i \in 1..Len(doc) : doc[i].name = name
    THEN doc[CHOOSE i \in 1..Len(doc) : doc[i].name = name].entries
    ELSE <<>>

\* The objects that the lines of that section were written for.
Entries(doc, name) ==
    [i \in 1..Len(Written(doc, name)) |-> Written(doc, name)[i].obj]

Has(doc, name) == \E i \in 1..Len(doc) : doc[i].name = name

\* s is t with some places left out, the rest in the order of t.
RECURSIVE IsSubSeq(_, _)
IsSubSeq(s, t) ==
    IF Len(s) = 0 THEN TRUE
    ELSE IF Len(t) = 0 THEN FALSE
    ELSE IF s[1] = t[1] THEN IsSubSeq(Tail(s), Tail(t))
    ELSE IsSubSeq(s, Tail(t))

\* C19: in a rendered document every section is one of the template's, the
\* sections stand in the template's order, none twice, and the entries of a
\* list section are the objects of the mesh's list in registration order
\* (for edges: those of the edge list, in its order).
C19_SectionOrder ==
    last.op = "render" =>
        LET doc == last.val
            self == mesh[last.m]
        IN  /\ \A i \in 1..Len(doc) :
                  \E k \in 1..Len(SectionOrder) : SectionOrder[k] = doc[i].name
            /\ \A i, j \in 1..Len(doc) :
                  i < j => Rank(doc[i].name) < Rank(doc[j].name)
            /\ Entries(doc, "geometry") = self.geometries
            /\ Entries(doc, "vertices") = self.vertices
            /\ Entries(doc, "blocks") = self.blocks
            /\ IsSubSeq(Entries(doc, "edges"), self.edges)
            /\ Entries(doc, "faces") = self.faces
            /\ Entries(doc, "patches") = self.patches
            /\ Entries(doc, "mergePatchPairs") = self.merge_patch_pairs

C19_Witness ==
    /\ last.op = "render"
    /\ Has(last.val, "edges")
    /\ Has(last.val, "faces")
    /\ Has(last.val, "mergePatchPairs")
    /\ Has(last.val, "header")
    /\ Has(last.val, "footer")
    /\ Len(Entries(last.val, "patches")) = 2

\* The edges of list s that are not straight lines.
Curved(s) == {i \in 1..Len(s) : ~IsLine(s[i])}

\* C20: a rendered document has the geometry, edges, faces, patches or
\* mergePatchPairs section exactly when the list behind it (for edges: the
\* registered edges that are no straight lines) is not empty, and no such
\* section is written without entries.
C20_OptionalSections ==
    last.op = "render" =>
        LET doc == last.val
            self == mesh[last.m]
        IN  /\ Has(doc, "geometry") <=> self.geometries # <<>>
            /\ Has(doc, "edges") <=> Curved(self.edges) # {}
            /\ Has(doc, "faces") <=> self.faces # <<>>
            /\ Has(doc, "patches") <=> self.patches # <<>>
            /\ Has(doc, "mergePatchPairs") <=> self.merge_patch_pairs # <<>>
            /\ \A i \in 1..Len(doc) :
                  doc[i].name \in {"geometry", "edges", "faces", "patches",
                                   "mergePatchPairs"} => doc[i].entries # <<>>

C20_Witness ==
    /\ last.op = "render"
    /\ Len(mesh[last.m].edges) > 0
    /\ Curved(mesh[last.m].edges) = {}
    /\ ~Has(last.val, "edges")
    /\ Has(last.val, "patches")
    /\ ~Has(last.val, "mergePatchPairs")

\* The edges of list s that are no straight lines, in the order of s.
CurvedSeq(s) == SelectSeq(s, LAMBDA e : ~IsLine(e))

\* C21: the edges section of a rendered document has one entry for each
\* registered edge that is no straight line, in registration order, and none
\* for a straight line; a mesh whose edge list holds only straight lines
\* (the default edges of its blocks) renders no edge entry.
C21_EdgeEntries ==
    last.op = "render" =>
        LET doc == last.val
            es == mesh[last.m].edges
        IN  /\ Entries(doc, "edges") = CurvedSeq(es)
            /\ \A i \in 1..Len(Entries(doc, "edges")) :
                  ~IsLine(Entries(doc, "edges")[i])
            /\ (\A i \in 1..Len(es) : IsLine(es[i])) => ~Has(doc, "edges")

C21_Witness ==
    /\ last.op = "render"
    /\ Len(mesh[last.m].blocks) = 1
    /\ Len(mesh[last.m].edges) = 13
    /\ Len(Entries(last.val, "edges")) = 2

\* C22: the blocks section of a rendered document has one entry for each
\* registered block, in registration order; entry i carries the name of
\* block i and 8 references, reference k naming the id of corner k of the
\* block (the place of that corner in the vertex list, when the list of this
\* mesh holds it); the cell zone is written exactly when cellZone is not
\* empty and the trailing comment exactly when description is not empty.
C22_BlockEntries ==
    last.op = "render" =>
        LET doc == last.val
            self == mesh[last.m]
            lines == Written(doc, "blocks")
        IN  /\ Count([i \in 1..Len(doc) |-> doc[i].name], "blocks") = 1
            /\ Entries(doc, "blocks") = self.blocks
            /\ \A i \in 1..Len(lines) :
                  LET b == BlockTable[self.blocks[i]]
                      line == lines[i].line
                  IN  /\ Len(line.hex) = 8
                      /\ \A k \in 1..8 :
                            /\ line.hex[k].id = vertex_id[b.vertices[k]]
                            /\ \A j \in 1..Len(self.vertices) :
                                  self.vertices[j] = b.vertices[k] =>
                                      line.hex[k].id = j - 1
                      /\ line.cellZone # <<>> <=> b.cellZone # ""
                      /\ line.comment # <<>> <=> b.description # ""
                      /\ line.cellZone # <<>> => line.cellZone = <<b.cellZone>>
                      /\ line.comment # <<>> => line.comment = <<b.description>>

C22_Witness ==
    /\ last.op = "render"
    /\ mesh[last.m].blocks = <<2, 1>>
    /\ Written(last.val, "blocks")[1].line.cellZone = <<"fluid">>
    /\ Written(last.val, "blocks")[2].line.cellZone = <<>>
    /\ Written(last.val, "blocks")[2].line.hex[1].id = 8

\* The kinds of error raised for a zero-length edge: by the edge
\* constructors, and by set_vertices for 8 vertices with a coinciding pair.
DegenerateKinds ==
    {LineEdge(v, v).err : v \in VertexObjs}
    \cup {set_vertices(block, vs).err :
            vs \in {x \in VertexLists : Len(x) = 8 /\ ~PairsApart(x)}}

\* The kinds raised for a wrong number of vertices or of grading levels.
ShapeKinds ==
    {set_vertices(block, vs).err : vs \in {x \in VertexLists : Len(x) # 8}}
    \cup {grading_setter(block, g).err :
            g \in {x \in GradingArgs : /\ x.py \in {"list", "tuple"}
                                       /\ Len(x.items) \notin {3, 12}}}

\* The kinds raised when something that is no Block is registered as one.
TypeKinds == {Mesh_add_block(World, 1, x).err : x \in NotABlock}

\* C23: the error of a zero-length edge, the error of a wrong vertex count
\* or grading length, and the error of registering a non-block are of three
\* different kinds: a call that fails for one of the three reasons raises a
\* kind that neither of the other two reasons ever raises.
C23_ErrorKindsDistinct ==
    /\ (last.op = "set_vertices" /\ Len(last.arg) = 8 /\ last.err # "") =>
          last.err \notin ShapeKinds \cup TypeKinds
    /\ ((last.op = "set_vertices" /\ Len(last.arg) # 8)
        \/ (last.op = "grading" /\ last.arg.py \in {"list", "tuple"}
            /\ last.err # "")) =>
          last.err \notin DegenerateKinds \cup TypeKinds

\* The elements of sequence s.
Range(s) == {s[i] : i \in 1..Len(s)}

\* The forms ("name" or "int") of the vertex references written in the
\* blocks, edges, faces and patches sections of document doc.
ReferenceForms(doc) ==
    {r.form : r \in UNION {Range(x.line.hex) : x \in Range(Written(doc, "blocks"))}}
    \cup {x.line.v0.form : x \in Range(Written(doc, "edges"))}
    \cup {x.line.v1.form : x \in Range(Written(doc, "edges"))}
    \cup {r.form : r \in UNION {Range(x.line.vertices) : x \in Range(Written(doc, "faces"))}}
    \cup {r.form : r \in UNION {Range(f) : f \in UNION {Range(x.line.faces) :
                                    x \in Range(Written(doc, "patches"))}}}

\* C24: within one rendered document every reference to a vertex has the
\* same form, the bare integer id or the symbolic name v<id>, in the block,
\* edge and face entries and in the face lists of the patch entries.
C24_OneReferenceForm ==
    last.op = "render" => Cardinality(ReferenceForms(last.val)) <= 1

\* List s is the beginning of list t.
IsPrefix(s, t) == Len(s) <= Len(t) /\ SubSeq(t, 1, Len(s)) = s

\* One step of a mesh history keeps what the lists held: every list of
\* every mesh is the beginning of what it is after the step, no counter is
\* smaller after it, and every vertex, edge, block and patch that was in a
\* list has the id it had.
ListsOnlyGrow ==
    \A m \in MeshIds :
        /\ IsPrefix(mesh[m].geometries, mesh'[m].geometries)
        /\ IsPrefix(mesh[m].vertices, mesh'[m].vertices)
        /\ IsPrefix(mesh[m].blocks, mesh'[m].blocks)
        /\ IsPrefix(mesh[m].edges, mesh'[m].edges)
        /\ IsPrefix(mesh[m].faces, mesh'[m].faces)
        /\ IsPrefix(mesh[m].patches, mesh'[m].patches)
        /\ IsPrefix(mesh[m].merge_patch_pairs, mesh'[m].merge_patch_pairs)
        /\ mesh[m].ids.vertex <= mesh'[m].ids.vertex
        /\ mesh[m].ids.block <= mesh'[m].ids.block
        /\ mesh[m].ids.edge <= mesh'[m].ids.edge
        /\ mesh[m].ids.patch <= mesh'[m].ids.patch
        /\ \A x \in Range(mesh[m].vertices) : vertex_id'[x] = vertex_id[x]
        /\ \A x \in Range(mesh[m].edges) : edge_id'[x] = edge_id[x]
        /\ \A x \in Range(mesh[m].blocks) : block_id'[x] = block_id[x]
        /\ \A x \in Range(mesh[m].patches) : patch_id'[x] = patch_id[x]

\* A rendering step changes no mesh and no id, and a rendering that follows
\* a rendering of the same mesh with the same header and footer gives the
\* same document.
RenderChangesNothing ==
    last'.op = "render" =>
        /\ UNCHANGED <<mesh, vertex_id, edge_id, block_id, patch_id>>
        /\ (last.op = "render" /\ last.m = last'.m /\ last.arg = last'.arg) =>
              last'.val = last.val

\* C25: every operation on a mesh, whether it ends normally or raises,
\* keeps every entry of every list at its place with its id, lists growing
\* at the end only and counters never decreasing; rendering changes nothing
\* and rendering the same mesh twice gives the same text.
C25_WriteOnce == [][ListsOnlyGrow /\ RenderChangesNothing]_vars

C25_Witness ==
    /\ last.op = "add_mergePatchPairs"
    /\ last.err # ""
    /\ last.pre.mesh[last.m].patches = <<2>>
    /\ mesh[last.m].patches = <<2, 1>>
    /\ Len(mesh[last.m].blocks) = 1

\* Edge objects e and t are two objects for one curve: the same class, the
\* same two endpoint objects in either direction, and the same curve data.
Twins(e, t) ==
    /\ e # t
    /\ EdgeTable[e].cls = EdgeTable[t].cls
    /\ {EdgeTable[e].v0, EdgeTable[e].v1} = {EdgeTable[t].v0, EdgeTable[t].v1}
    /\ curve(EdgeTable[e]) = curve(EdgeTable[t])

\* The call just made was add_edge of an edge without id that is no straight
\* line, on a mesh whose edge list held a twin of it.
TwinAdded ==
    /\ last.op = "add_edge"
    /\ ~IsLine(last.arg)
    /\ last.pre.edge_id[last.arg] < 0
    /\ \E i \in 1..Len(last.pre.mesh[last.m].edges) :
          Twins(last.arg, last.pre.mesh[last.m].edges[i])

\* The number of places in the vertex lists of all meshes that hold v.
Registrations(v) ==
    Cardinality({<<m, i>> \in MeshIds \X (1..13) :
                    i <= Len(mesh[m].vertices) /\ mesh[m].vertices[i] = v})

\* C26: add_edge of an unregistered edge that is no straight line, on a mesh
\* that holds another edge object with the same endpoints (in the same or the
\* opposite direction) and the same curve data, appends the edge with a new
\* id, so that the list holds both with different ids, while each of the two
\* endpoints has one id and one place in a vertex list.
C26_NoGeometricDedup ==
    TwinAdded =>
        LET m == last.m
            e == last.arg
        IN  /\ mesh[m].edges = Append(last.pre.mesh[m].edges, e)
            /\ edge_id[e] = last.pre.mesh[m].ids.edge
            /\ \A i \in 1..Len(last.pre.mesh[m].edges) :
                  /\ edge_id[mesh[m].edges[i]] # edge_id[e]
                  /\ edge_id[mesh[m].edges[i]] = i - 1
            /\ \A v \in {EdgeTable[e].v0, EdgeTable[e].v1} :
                  /\ vertex_id[v] >= 0
                  /\ Registrations(v) = 1
            /\ mesh[m].vertices = last.pre.mesh[m].vertices

C26_Witness ==
    /\ TwinAdded
    /\ mesh[last.m].edges = <<37, 44, 45>>
    /\ edge_id[45] = 2
    /\ Len(mesh[last.m].vertices) = 2

\* C27: the test marks the middle point cur of prev, cur, next exactly when
\* the cross product of prev - cur and prev - next is the zero vector; a
\* cross product with a component that is not zero never marks the point,
\* whatever its components add up to.
C27_MarkedIffCrossIsZero ==
    last.op = "is_collinear" =>
        LET prev == last.arg[1]
            cur == last.arg[2]
            next == last.arg[3]
        IN  last.val <=> Cross(Minus(prev, cur), Minus(prev, next)) = <<0, 0, 0>>

\* Edge object e is an elements.Edge that holds no interior point.
NoPointsLeft(e) == EdgeTable[e].cls = "Edge" /\ Len(EdgeTable[e].points) = 0

\* C28: an elements.Edge left without interior points is a straight line
\* (its type is None) once constructed, whatever type it was constructed
\* with; add_edge of it changes nothing, and no rendered edges section has
\* an entry for it.
C28_EmptyEdgeIsLine ==
    /\ (last.op = "add_edge" /\ NoPointsLeft(last.arg)) =>
          (EdgeTable[last.arg].type = "None" /\ World = last.pre)
    /\ last.op = "render" =>
          \A i \in 1..Len(Entries(last.val, "edges")) :
              ~NoPointsLeft(Entries(last.val, "edges")[i])

\* C29: set_vertices with 8 vertices, two of which are joined by a pair of
\* BLOCK_EDGES and have equal coordinates, raises the zero-length error
\* (ValueError) and leaves the block as it was, its vertices and its edges.
C29_FailedSetVerticesKeepsBlock ==
    (last.op = "set_vertices" /\ Len(last.arg) = 8 /\ ~PairsApart(last.arg)) =>
        /\ last.err = "ValueError"
        /\ block.vertices = last.pre.vertices
        /\ block.edges = last.pre.edges

\* C30: in every mesh, every corner of every block of the block list and
\* both endpoints of every edge of the edge list are in the vertex list of
\* that same mesh.
C30_ReferencesResolve ==
    \A m \in MeshIds :
        /\ \A b \in Range(mesh[m].blocks) :
              Range(block_vertices(b)) \subseteq Range(mesh[m].vertices)
        /\ \A e \in Range(mesh[m].edges) :
              {EdgeTable[e].v0, EdgeTable[e].v1} \subseteq Range(mesh[m].vertices)

=============================================================================
